---- MODULE Spec2Model ----
(***************************************************************************)
(* Model of tooldocs' InMemoryStore (store.go, types.go): the id -> record *)
(* map, RegisterDoc / RegisterExamples / DescribeTool / ListExamples, the  *)
(* Args validator and the deep-copy normaliser.                            *)
(*                                                                         *)
(* Go values are modelled as follows.                                      *)
(*   string          a sequence of character codes (truncateString slices  *)
(*                   it); tool ids, map keys and error texts, which the    *)
(*                   code only compares or passes along, are TLA+ strings  *)
(*   any             a record with a field "shape" naming the dynamic type *)
(*   map[string]T    its entries as a sequence of [k, v] records           *)
(*   *T / error      a sequence of length 0 (nil) or 1                     *)
(***************************************************************************)
EXTENDS Integers, Sequences, FiniteSets, TLC

VARIABLES
    index,          \* InMemoryStore.index: TRUE iff a toolindex.Index is configured
    toolResolver,   \* InMemoryStore.toolResolver: TRUE iff a resolver func is configured
    maxExamples,    \* InMemoryStore.maxExamples
    docs,           \* InMemoryStore.docs: a function from the registered ids to records
    call,           \* the last call made on the store (operation and arguments)
    ret,            \* what that call returned and what it consulted
    heap,           \* reference-level view: the Go heap cells holding Args containers
    hdocs,          \* reference-level view: id -> sequence of Args references stored
    hreg,           \* reference-level view: id -> contents of those Args when committed
    hret,           \* reference-level view: Args references last returned by ListExamples
    hseen,          \* reference-level view: what that ListExamples call returned
    mu,             \* InMemoryStore.mu, the sync.RWMutex guarding docs
    threads,        \* concurrent view: each goroutine's call, position and locals
    log             \* concurrent view: the registrations, in the order they took the lock

vars == <<index, toolResolver, maxExamples, docs, call, ret, heap, hdocs, hreg, hret, hseen,
          mu, threads, log>>
storeVars == <<index, toolResolver, maxExamples, docs, call, ret>>
heapVars == <<heap, hdocs, hreg, hret, hseen>>
concVars == <<mu, threads, log>>

----------------------------------------------------------------------------
(* types.go: constants *)

DetailSummary == "summary"
DetailSchema == "schema"
DetailFull == "full"

MaxDescriptionLen == 300
MaxResultHintLen == 200
MaxSummaryLen == 200
MaxNotesLen == 2000
MaxArgsDepth == 5
MaxArgsKeys == 50

(* store.go: sentinel errors; an error value is nil (<<>>) or <<[kind, info]>> *)
ErrNotFound == "tool not found"
ErrInvalidDetail == "invalid detail level"
ErrNoTool == "tool required for schema/full level"
ErrArgsTooLarge == "args exceeds caps"

NoError == <<>>
Errorf(kind, info) == <<[kind |-> kind, info |-> info]>>
ErrorsIs(err, kind) == err # <<>> /\ err[1].kind = kind

----------------------------------------------------------------------------
(* Go dynamic values *)

Nil == [shape |-> "nil"]
StrV(s) == [shape |-> "string", val |-> s]
IntV(n) == [shape |-> "int", val |-> n]
BoolV(b) == [shape |-> "bool", val |-> b]
MapAny(items) == [shape |-> "map[string]any", items |-> items]
SliceAny(items) == [shape |-> "[]any", items |-> items]
Typed(shape, items) == [shape |-> shape, items |-> items]
KV(k, v) == [k |-> k, v |-> v]

TypedMapShapes == {"map[string]string", "map[string]int", "map[string]float64", "map[string]bool"}
TypedSliceShapes == {"[]string", "[]int", "[]float64", "[]bool"}

Min(a, b) == IF a <= b THEN a ELSE b
Max(a, b) == IF a >= b THEN a ELSE b

\* Lookup of a key in a map value: nil (<<>>) or <<value>>.
MapGet(m, key) ==
    LET hits == {i \in 1..Len(m.items) : m.items[i].k = key}
    IN  IF hits = {} THEN <<>> ELSE <<m.items[CHOOSE i \in hits : TRUE].v>>

----------------------------------------------------------------------------
(* types.go: truncateString *)

\* Mutant: the cut is one character late.
truncateString_OneTooMany(s, maxLen) ==
    IF Len(s) <= maxLen THEN s ELSE SubSeq(s, 1, maxLen + 1)

truncateString(s, maxLen) ==
    IF Len(s) <= maxLen THEN s ELSE SubSeq(s, 1, maxLen)

----------------------------------------------------------------------------
(* types.go: ValidateArgs, countArgsMetrics, countValueMetrics.            *)
(* Metrics are pairs <<keys, maxDepth>>.                                   *)

RECURSIVE countValueMetrics(_, _)
RECURSIVE rangeMetrics(_, _, _, _)

\* The body of the two "for ... range" loops: fold the children into
\* (keys, maxDepth), each child analysed at currentDepth+1.
rangeMetrics(children, currentDepth, keys, maxDepth) ==
    IF children = <<>> THEN <<keys, maxDepth>>
    ELSE LET child == countValueMetrics(Head(children), currentDepth + 1)
         IN  rangeMetrics(Tail(children), currentDepth, keys + child[1],
                          IF child[2] > maxDepth THEN child[2] ELSE maxDepth)

MapValues(m) == [i \in 1..Len(m.items) |-> m.items[i].v]

countArgsMetrics(m, currentDepth) ==
    rangeMetrics(MapValues(m), currentDepth, Len(m.items), currentDepth)

\* Mutant: a primitive counts as a level of its own.
countValueMetrics_PrimitivesAddDepth(v, currentDepth) ==
    CASE v.shape = "map[string]any" -> countArgsMetrics(v, currentDepth)
      [] v.shape = "[]any" -> rangeMetrics(v.items, currentDepth, Len(v.items), currentDepth)
      [] OTHER -> <<0, currentDepth>>

countValueMetrics(v, currentDepth) ==
    CASE v.shape = "map[string]any" -> countArgsMetrics(v, currentDepth)
      [] v.shape = "[]any" -> rangeMetrics(v.items, currentDepth, Len(v.items), currentDepth)
      [] OTHER -> <<0, currentDepth - 1>>

\* Mutant: the depth cap is tested with < instead of <=.
ValidateArgs_DepthOffByOne(args) ==
    IF args = Nil
    THEN [Depth |-> 0, Keys |-> 0, valid |-> TRUE]
    ELSE LET m == countArgsMetrics(args, 1)
         IN  [Depth |-> m[2], Keys |-> m[1],
              valid |-> m[2] < MaxArgsDepth /\ m[1] <= MaxArgsKeys]

ValidateArgs(args) ==
    IF args = Nil
    THEN [Depth |-> 0, Keys |-> 0, valid |-> TRUE]
    ELSE LET m == countArgsMetrics(args, 1)
         IN  [Depth |-> m[2], Keys |-> m[1],
              valid |-> m[2] <= MaxArgsDepth /\ m[1] <= MaxArgsKeys]

----------------------------------------------------------------------------
(* store.go: deepCopyArgs, deepCopyValue, deepCopySlice, copyExamples, on   *)
(* values (the copy's contents; which cells it shares is modelled on the   *)
(* heap further down).                                                     *)

RECURSIVE deepCopyValue(_)

deepCopyArgs(args) ==
    IF args = Nil THEN Nil
    ELSE MapAny([i \in 1..Len(args.items) |->
                    KV(args.items[i].k, deepCopyValue(args.items[i].v))])

deepCopySlice(s) ==
    IF s = Nil THEN Nil
    ELSE SliceAny([i \in 1..Len(s.items) |-> deepCopyValue(s.items[i])])

\* Mutant: the typed slices are returned as they are.
deepCopyValue_KeepsTypedSlices(v) ==
    CASE v = Nil -> Nil
      [] v.shape = "map[string]any" -> deepCopyArgs(v)
      [] v.shape = "[]any" -> deepCopySlice(v)
      [] v.shape \in TypedMapShapes -> MapAny(v.items)
      [] OTHER -> v

deepCopyValue(v) ==
    CASE v = Nil -> Nil
      [] v.shape = "map[string]any" -> deepCopyArgs(v)
      [] v.shape = "[]any" -> deepCopySlice(v)
      [] v.shape \in TypedMapShapes -> MapAny(v.items)
      [] v.shape \in TypedSliceShapes -> SliceAny(v.items)
      [] OTHER -> v

ToolExample(id, title, description, args, resultHint) ==
    [ID |-> id, Title |-> title, Description |-> description,
     Args |-> args, ResultHint |-> resultHint]

\* Mutant: the result hint is left out of the copy.
copyExamples_WithoutResultHint(examples) ==
    [i \in 1..Len(examples) |->
        ToolExample(examples[i].ID, examples[i].Title, examples[i].Description,
                    deepCopyArgs(examples[i].Args), <<>>)]

copyExamples(examples) ==
    [i \in 1..Len(examples) |->
        ToolExample(examples[i].ID, examples[i].Title, examples[i].Description,
                    deepCopyArgs(examples[i].Args), examples[i].ResultHint)]

----------------------------------------------------------------------------
(* types.go: DocEntry.ValidateAndTruncate *)

DocEntry(summary, notes, examples, externalRefs) ==
    [Summary |-> summary, Notes |-> notes, Examples |-> examples,
     ExternalRefs |-> externalRefs]

\* Mutant: the summary is passed on as it came.
ValidateAndTruncate_SummaryUncut(e) ==
    DocEntry(e.Summary,
             truncateString(e.Notes, MaxNotesLen),
             [i \in 1..Len(e.Examples) |->
                 ToolExample(e.Examples[i].ID, e.Examples[i].Title,
                             truncateString(e.Examples[i].Description, MaxDescriptionLen),
                             e.Examples[i].Args,
                             truncateString(e.Examples[i].ResultHint, MaxResultHintLen))],
             e.ExternalRefs)

ValidateAndTruncate(e) ==
    DocEntry(truncateString(e.Summary, MaxSummaryLen),
             truncateString(e.Notes, MaxNotesLen),
             [i \in 1..Len(e.Examples) |->
                 ToolExample(e.Examples[i].ID, e.Examples[i].Title,
                             truncateString(e.Examples[i].Description, MaxDescriptionLen),
                             e.Examples[i].Args,
                             truncateString(e.Examples[i].ResultHint, MaxResultHintLen))],
             e.ExternalRefs)

----------------------------------------------------------------------------
(* store.go: docRecord and the two registrations.  A handler is an operator *)
(* from the store and the arguments to the returned error and the new map; *)
(* the action below it installs the result.                                *)

docRecord(summary, notes, examples, externalRefs) ==
    [summary |-> summary, notes |-> notes, examples |-> examples,
     externalRefs |-> externalRefs]

\* Mutant: the map is replaced by one holding the new record alone.
Put_ForgetsOthers(d, id, record) == [x \in {id} |-> record]

\* Mutant: the records of the other ids are reset to empty ones.
Put_ResetsOthers(d, id, record) ==
    [x \in (DOMAIN d) \cup {id} |-> IF x = id THEN record
                                    ELSE docRecord(<<>>, <<>>, <<>>, <<>>)]

\* s.docs[id] = record, creating the key if it is absent.
Put(d, id, record) ==
    [x \in (DOMAIN d) \cup {id} |-> IF x = id THEN record ELSE d[x]]

\* Mutant: the caps are checked on the caller's Args, before normalisation.
FirstTooLarge_BeforeNormalising(examples) ==
    LET bad == {i \in 1..Len(examples) : ~ValidateArgs(examples[i].Args).valid}
    IN  IF bad = {} THEN 0 ELSE CHOOSE i \in bad : \A j \in bad : i <= j

\* The validation loop of both registrations: the index of the first example
\* whose normalised Args is over the caps, 0 when every example passes.
FirstTooLarge(examples) ==
    LET bad == {i \in 1..Len(examples) :
                   ~ValidateArgs(deepCopyArgs(examples[i].Args)).valid}
    IN  IF bad = {} THEN 0 ELSE CHOOSE i \in bad : \A j \in bad : i <= j

ArgsTooLargeError(examples, i) ==
    LET stats == ValidateArgs(deepCopyArgs(examples[i].Args))
    IN  Errorf(ErrArgsTooLarge,
               <<i - 1, examples[i].Title, stats.Depth, MaxArgsDepth, stats.Keys, MaxArgsKeys>>)

\* Mutant: the record is written as the loop goes, so a failing batch leaves
\* the examples that preceded the offending one.
RegisterDocResult_CommitsAsItGoes(d, id, entry) ==
    LET e == ValidateAndTruncate(entry)
        i == FirstTooLarge(e.Examples)
        n == IF i # 0 THEN i - 1 ELSE Len(e.Examples)
        examples == [k \in 1..n |->
                        ToolExample(e.Examples[k].ID, e.Examples[k].Title,
                                    e.Examples[k].Description,
                                    deepCopyArgs(e.Examples[k].Args),
                                    e.Examples[k].ResultHint)]
    IN  [err |-> IF i # 0 THEN ArgsTooLargeError(e.Examples, i) ELSE NoError,
         docs |-> Put(d, id, docRecord(e.Summary, e.Notes, examples, e.ExternalRefs))]

\* Mutant: an entry without examples leaves the record's examples in place.
RegisterDocResult_KeepsExamples(d, id, entry) ==
    LET e == ValidateAndTruncate(entry)
        i == FirstTooLarge(e.Examples)
        examples == IF e.Examples = <<>> /\ id \in DOMAIN d THEN d[id].examples
                    ELSE copyExamples(e.Examples)
    IN  IF i # 0
        THEN [err |-> ArgsTooLargeError(e.Examples, i), docs |-> d]
        ELSE [err |-> NoError,
              docs |-> Put(d, id, docRecord(e.Summary, e.Notes, examples, e.ExternalRefs))]

RegisterDocResult(d, id, entry) ==
    LET e == ValidateAndTruncate(entry)
        i == FirstTooLarge(e.Examples)
        examples == [k \in 1..Len(e.Examples) |->
                        ToolExample(e.Examples[k].ID, e.Examples[k].Title,
                                    e.Examples[k].Description,
                                    deepCopyArgs(e.Examples[k].Args),
                                    e.Examples[k].ResultHint)]
    IN  IF i # 0
        THEN [err |-> ArgsTooLargeError(e.Examples, i), docs |-> d]
        ELSE [err |-> NoError,
              docs |-> Put(d, id, docRecord(e.Summary, e.Notes, examples, e.ExternalRefs))]

\* Mutant: the examples are appended to the record's examples.
RegisterExamplesResult_Appends(d, id, examples) ==
    LET i == FirstTooLarge(examples)
        truncated == [k \in 1..Len(examples) |->
                        ToolExample(examples[k].ID, examples[k].Title,
                                    truncateString(examples[k].Description, MaxDescriptionLen),
                                    deepCopyArgs(examples[k].Args),
                                    truncateString(examples[k].ResultHint, MaxResultHintLen))]
        record == IF id \in DOMAIN d THEN d[id] ELSE docRecord(<<>>, <<>>, <<>>, <<>>)
    IN  IF i # 0
        THEN [err |-> ArgsTooLargeError(examples, i), docs |-> d]
        ELSE [err |-> NoError,
              docs |-> Put(d, id, [record EXCEPT !.examples = record.examples \o truncated])]

\* Mutant: examples are stored only when the id has a record already.
RegisterExamplesResult_OnlyUpdates(d, id, examples) ==
    LET i == FirstTooLarge(examples)
        truncated == [k \in 1..Len(examples) |->
                        ToolExample(examples[k].ID, examples[k].Title,
                                    truncateString(examples[k].Description, MaxDescriptionLen),
                                    deepCopyArgs(examples[k].Args),
                                    truncateString(examples[k].ResultHint, MaxResultHintLen))]
    IN  IF i # 0
        THEN [err |-> ArgsTooLargeError(examples, i), docs |-> d]
        ELSE [err |-> NoError,
              docs |-> IF id \in DOMAIN d
                       THEN Put(d, id, [d[id] EXCEPT !.examples = truncated])
                       ELSE d]

RegisterExamplesResult(d, id, examples) ==
    LET i == FirstTooLarge(examples)
        truncated == [k \in 1..Len(examples) |->
                        ToolExample(examples[k].ID, examples[k].Title,
                                    truncateString(examples[k].Description, MaxDescriptionLen),
                                    deepCopyArgs(examples[k].Args),
                                    truncateString(examples[k].ResultHint, MaxResultHintLen))]
        record == IF id \in DOMAIN d THEN d[id] ELSE docRecord(<<>>, <<>>, <<>>, <<>>)
    IN  IF i # 0
        THEN [err |-> ArgsTooLargeError(examples, i), docs |-> d]
        ELSE [err |-> NoError,
              docs |-> Put(d, id, [record EXCEPT !.examples = truncated])]

----------------------------------------------------------------------------
(* store.go: toStringSlice, normalizeNumeric, deriveSchemaInfo.  A schema  *)
(* is nil, a map[string]any, or another value carrying in "parsed" the map *)
(* that encoding/json decodes it into (<<>> when decoding fails).          *)

IntegerShapes == {"int", "int8", "int16", "int32", "int64",
                  "uint", "uint8", "uint16", "uint32", "uint64", "float32"}

normalizeNumeric(v) ==
    IF v.shape \in IntegerShapes THEN [shape |-> "float64", val |-> v.val] ELSE v

RECURSIVE onlyStrings(_)
onlyStrings(items) ==
    IF items = <<>> THEN <<>>
    ELSE IF Head(items).shape = "string"
         THEN <<Head(items).val>> \o onlyStrings(Tail(items))
         ELSE onlyStrings(Tail(items))

toStringSlice(v) ==
    CASE v = Nil -> <<>>
      [] v.shape = "[]string" -> [i \in 1..Len(v.items) |-> v.items[i].val]
      [] v.shape = "[]any" -> onlyStrings(v.items)
      [] OTHER -> <<>>

schemaAsMap(schema) ==
    CASE schema.shape = "map[string]any" -> <<schema>>
      [] OTHER -> schema.parsed

\* The "for name, prop := range propsMap" loop, one map at a time.
RECURSIVE propTypes(_)
propTypes(props) ==
    IF props = <<>> THEN <<>>
    ELSE LET name == Head(props).k
             prop == Head(props).v
             t == IF prop.shape = "map[string]any" THEN MapGet(prop, "type") ELSE <<>>
             types == IF t = <<>> THEN <<>>
                      ELSE IF t[1].shape = "string" THEN <<t[1].val>>
                      ELSE toStringSlice(t[1])
         IN  (IF types # <<>> THEN <<KV(name, types)>> ELSE <<>>) \o propTypes(Tail(props))

RECURSIVE propDefaults(_)
propDefaults(props) ==
    IF props = <<>> THEN <<>>
    ELSE LET name == Head(props).k
             prop == Head(props).v
             def == IF prop.shape = "map[string]any" THEN MapGet(prop, "default") ELSE <<>>
         IN  (IF def # <<>> THEN <<KV(name, normalizeNumeric(def[1]))>> ELSE <<>>)
             \o propDefaults(Tail(props))

\* Mutant: the structure is returned whether or not a field yielded data.
deriveSchemaInfo_AlwaysBuilds(schema) ==
    IF schema = Nil THEN <<>>
    ELSE LET sm == schemaAsMap(schema)
         IN  IF sm = <<>> THEN <<>>
             ELSE LET req == MapGet(sm[1], "required")
                      props == MapGet(sm[1], "properties")
                      propsMap == IF props # <<>> /\ props[1].shape = "map[string]any"
                                  THEN props[1].items ELSE <<>>
                  IN  <<[Required |-> IF req = <<>> THEN <<>> ELSE toStringSlice(req[1]),
                         Defaults |-> propDefaults(propsMap),
                         Types |-> propTypes(propsMap)]>>

deriveSchemaInfo(schema) ==
    IF schema = Nil THEN <<>>
    ELSE LET sm == schemaAsMap(schema)
         IN  IF sm = <<>> THEN <<>>
             ELSE LET req == MapGet(sm[1], "required")
                      required == IF req = <<>> THEN <<>> ELSE toStringSlice(req[1])
                      props == MapGet(sm[1], "properties")
                      propsMap == IF props # <<>> /\ props[1].shape = "map[string]any"
                                  THEN props[1].items ELSE <<>>
                      types == propTypes(propsMap)
                      defaults == propDefaults(propsMap)
                      hasData == required # <<>> \/ types # <<>> \/ defaults # <<>>
                  IN  IF ~hasData THEN <<>>
                      ELSE <<[Required |-> required, Defaults |-> defaults, Types |-> types]>>

----------------------------------------------------------------------------
(* store.go: DescribeTool and ListExamples.                                *)
(* What the index and the resolver answer is an input of the call:         *)
(*   indexOut, resolverOut = [tool |-> nil or <<tool>>, err |-> nil or <<e>>] *)

Tool(name, description, inputSchema) ==
    [Name |-> name, Description |-> description, InputSchema |-> inputSchema]

ToolDoc(tool, summary, schemaInfo, notes, examples, externalRefs) ==
    [Tool |-> tool, Summary |-> summary, SchemaInfo |-> schemaInfo,
     Notes |-> notes, Examples |-> examples, ExternalRefs |-> externalRefs]

ZeroToolDoc == ToolDoc(<<>>, <<>>, <<>>, <<>>, <<>>, <<>>)

\* Mutant: a record with an empty summary is taken for no record.
snapshotRecord_EmptySummaryIsNoRecord(d, id) ==
    IF id \in DOMAIN d /\ d[id].summary # <<>>
    THEN [hasDoc |-> TRUE, summary |-> d[id].summary, notes |-> d[id].notes,
          examples |-> copyExamples(d[id].examples),
          externalRefs |-> d[id].externalRefs]
    ELSE [hasDoc |-> FALSE, summary |-> <<>>, notes |-> <<>>, examples |-> <<>>,
          externalRefs |-> <<>>]

\* The section under s.mu.RLock(): the record's fields, copied.
snapshotRecord(d, id) ==
    IF id \in DOMAIN d
    THEN [hasDoc |-> TRUE, summary |-> d[id].summary, notes |-> d[id].notes,
          examples |-> copyExamples(d[id].examples),
          externalRefs |-> d[id].externalRefs]
    ELSE [hasDoc |-> FALSE, summary |-> <<>>, notes |-> <<>>, examples |-> <<>>,
          externalRefs |-> <<>>]

\* Mutant: the tool a failing resolver returned along with its error is used.
lookupTool_KeepsToolOfFailedResolver(hasIndex, hasResolver, indexOut, resolverOut) ==
    LET fromIndex == IF hasIndex /\ indexOut.err = <<>> THEN indexOut.tool ELSE <<>>
        askResolver == fromIndex = <<>> /\ hasResolver
    IN  [tool |-> IF fromIndex # <<>> THEN fromIndex
                  ELSE IF askResolver THEN resolverOut.tool
                  ELSE <<>>,
         resolverErr |-> IF askResolver /\ resolverOut.tool = <<>> THEN resolverOut.err
                         ELSE <<>>,
         indexCalled |-> hasIndex,
         resolverCalled |-> askResolver]

\* Mutant: the resolver is called whether or not the index gave the tool.
lookupTool_AlwaysAsksResolver(hasIndex, hasResolver, indexOut, resolverOut) ==
    LET fromIndex == IF hasIndex /\ indexOut.err = <<>> THEN indexOut.tool ELSE <<>>
    IN  [tool |-> IF fromIndex # <<>> THEN fromIndex
                  ELSE IF hasResolver /\ resolverOut.err = <<>> THEN resolverOut.tool
                  ELSE <<>>,
         resolverErr |-> IF hasResolver THEN resolverOut.err ELSE <<>>,
         indexCalled |-> hasIndex,
         resolverCalled |-> hasResolver]

\* Mutant: without a resolver the index's error is kept as the lookup's error.
lookupTool_KeepsIndexError(hasIndex, hasResolver, indexOut, resolverOut) ==
    LET fromIndex == IF hasIndex /\ indexOut.err = <<>> THEN indexOut.tool ELSE <<>>
        askResolver == fromIndex = <<>> /\ hasResolver
    IN  [tool |-> IF fromIndex # <<>> THEN fromIndex
                  ELSE IF askResolver /\ resolverOut.err = <<>> THEN resolverOut.tool
                  ELSE <<>>,
         resolverErr |-> IF askResolver THEN resolverOut.err
                         ELSE IF hasIndex THEN indexOut.err ELSE <<>>,
         indexCalled |-> hasIndex,
         resolverCalled |-> askResolver]

\* DescribeTool's lookup: the index first, the resolver when it gave no tool.
lookupTool(hasIndex, hasResolver, indexOut, resolverOut) ==
    LET fromIndex == IF hasIndex /\ indexOut.err = <<>> THEN indexOut.tool ELSE <<>>
        askResolver == fromIndex = <<>> /\ hasResolver
    IN  [tool |-> IF fromIndex # <<>> THEN fromIndex
                  ELSE IF askResolver /\ resolverOut.err = <<>> THEN resolverOut.tool
                  ELSE <<>>,
         resolverErr |-> IF askResolver THEN resolverOut.err ELSE <<>>,
         indexCalled |-> hasIndex,
         resolverCalled |-> askResolver]

NotConsulted ==
    [tool |-> <<>>, resolverErr |-> <<>>, indexCalled |-> FALSE, resolverCalled |-> FALSE]

\* Mutant: the zero DetailLevel is taken for the summary level.
validLevel_EmptyIsSummary(level) == level \in {DetailSummary, DetailSchema, DetailFull, ""}

\* The switch on level that opens DescribeTool.
validLevel(level) == level \in {DetailSummary, DetailSchema, DetailFull}

\* Mutant: the record is not looked at, a missing tool is always NoTool.
requireToolError_AlwaysNoTool(id, hasDoc, resolverErr) ==
    IF resolverErr # <<>> THEN resolverErr ELSE Errorf(ErrNoTool, id)

\* Mutant: the record is not looked at, a missing tool is always NotFound.
requireToolError_AlwaysNotFound(id, hasDoc, resolverErr) ==
    IF resolverErr # <<>> THEN resolverErr ELSE Errorf(ErrNotFound, id)

\* Mutant: a record is looked at before the resolver's error.
requireToolError_RecordFirst(id, hasDoc, resolverErr) ==
    IF hasDoc THEN Errorf(ErrNoTool, id)
    ELSE IF resolverErr # <<>> THEN resolverErr
    ELSE Errorf(ErrNotFound, id)

\* Schema/full without a tool: the resolver's error, else NotFound or NoTool.
requireToolError(id, hasDoc, resolverErr) ==
    IF resolverErr # <<>> THEN resolverErr
    ELSE IF ~hasDoc THEN Errorf(ErrNotFound, id)
    ELSE Errorf(ErrNoTool, id)

\* Mutant: the resolver's error is masked as NotFound.
summaryMissingError_Masked(id, resolverErr) == Errorf(ErrNotFound, id)

\* Summary with neither record nor tool: the resolver's error, else NotFound.
summaryMissingError(id, resolverErr) ==
    IF resolverErr # <<>> THEN resolverErr ELSE Errorf(ErrNotFound, id)

\* Mutant: the tool's description is used at its full length.
buildSummary_NotTruncated(summary, tool) ==
    IF summary = <<>> /\ tool # <<>> /\ tool[1].Description # <<>>
    THEN tool[1].Description
    ELSE summary

\* "prefer doc summary, fallback to tool description"
buildSummary(summary, tool) ==
    IF summary = <<>> /\ tool # <<>> /\ tool[1].Description # <<>>
    THEN truncateString(tool[1].Description, MaxSummaryLen)
    ELSE summary

\* Mutant: the cap keeps the last examples instead of the first.
applyLimit_KeepsLast(examples, limit) ==
    IF limit > 0 /\ Len(examples) > limit
    THEN SubSeq(examples, Len(examples) - limit + 1, Len(examples)) ELSE examples

\* "Apply MaxExamples cap" / "Apply limit": examples[:limit] when limit > 0.
applyLimit(examples, limit) ==
    IF limit > 0 /\ Len(examples) > limit THEN SubSeq(examples, 1, limit) ELSE examples

\* Mutant: notes, refs and examples are attached at the schema level too.
describeFrom_SchemaCarriesNotes(id, level, snap, maxEx, found) ==
    LET tool == found.tool
        summary == buildSummary(snap.summary, tool)
    IN  IF level \in {DetailSchema, DetailFull} /\ tool = <<>>
        THEN [doc |-> ZeroToolDoc,
              err |-> requireToolError(id, snap.hasDoc, found.resolverErr)]
        ELSE IF level = DetailSummary
        THEN IF summary = <<>> /\ ~snap.hasDoc /\ tool = <<>>
             THEN [doc |-> ZeroToolDoc, err |-> summaryMissingError(id, found.resolverErr)]
             ELSE [doc |-> ToolDoc(<<>>, summary, <<>>, <<>>, <<>>, <<>>), err |-> NoError]
        ELSE [doc |-> ToolDoc(tool, summary, deriveSchemaInfo(tool[1].InputSchema),
                              snap.notes, applyLimit(snap.examples, maxEx),
                              snap.externalRefs),
              err |-> NoError]

\* DescribeTool after the lookup: the error or the ToolDoc.
describeFrom(id, level, snap, maxEx, found) ==
    LET tool == found.tool
        summary == buildSummary(snap.summary, tool)
    IN  IF level \in {DetailSchema, DetailFull} /\ tool = <<>>
        THEN [doc |-> ZeroToolDoc,
              err |-> requireToolError(id, snap.hasDoc, found.resolverErr)]
        ELSE IF level = DetailSummary
        THEN IF summary = <<>> /\ ~snap.hasDoc /\ tool = <<>>
             THEN [doc |-> ZeroToolDoc, err |-> summaryMissingError(id, found.resolverErr)]
             ELSE [doc |-> ToolDoc(<<>>, summary, <<>>, <<>>, <<>>, <<>>), err |-> NoError]
        ELSE LET schemaInfo == IF tool # <<>> THEN deriveSchemaInfo(tool[1].InputSchema)
                               ELSE <<>>
             IN  [doc |-> IF level = DetailFull
                          THEN ToolDoc(tool, summary, schemaInfo, snap.notes,
                                       applyLimit(snap.examples, maxEx), snap.externalRefs)
                          ELSE ToolDoc(tool, summary, schemaInfo, <<>>, <<>>, <<>>),
                  err |-> NoError]

DescribeToolResult(d, maxEx, hasIndex, hasResolver, id, level, indexOut, resolverOut) ==
    IF ~validLevel(level)
    THEN [doc |-> ZeroToolDoc, err |-> Errorf(ErrInvalidDetail, level),
          found |-> NotConsulted]
    ELSE LET found == lookupTool(hasIndex, hasResolver, indexOut, resolverOut)
             r == describeFrom(id, level, snapshotRecord(d, id), maxEx, found)
         IN  [doc |-> r.doc, err |-> r.err, found |-> found]

\* ListExamples' lookup: only whether a tool exists; a resolver error ends the call.
lookupToolExists(hasIndex, hasResolver, indexOut, resolverOut) ==
    LET inIndex == hasIndex /\ indexOut.err = <<>>
        askResolver == ~inIndex /\ hasResolver
    IN  [tool |-> IF inIndex THEN indexOut.tool
                  ELSE IF askResolver /\ resolverOut.err = <<>> THEN resolverOut.tool
                  ELSE <<>>,
         resolverErr |-> IF askResolver THEN resolverOut.err ELSE <<>>,
         indexCalled |-> hasIndex,
         resolverCalled |-> askResolver]

\* Mutant: a positive request wins over a smaller configured default.
effectiveLimit_RequestWins(maxExamplesArg, defaultMax) ==
    IF maxExamplesArg > 0 THEN maxExamplesArg ELSE defaultMax

\* Mutant: the configured default is never applied.
effectiveLimit_NoDefault(maxExamplesArg, defaultMax) == maxExamplesArg

\* "Compute effective limit: min(maxExamples, defaultMax) when both > 0"
effectiveLimit(maxExamplesArg, defaultMax) ==
    IF defaultMax > 0 /\ (maxExamplesArg <= 0 \/ defaultMax < maxExamplesArg)
    THEN defaultMax ELSE maxExamplesArg

\* ListExamples after the lookup: the error or the examples.
listFrom(id, maxExamplesArg, snap, defaultMax, found) ==
    IF found.resolverErr # <<>>
    THEN [examples |-> <<>>, err |-> found.resolverErr]
    ELSE IF ~snap.hasDoc /\ found.tool = <<>>
    THEN [examples |-> <<>>, err |-> Errorf(ErrNotFound, id)]
    ELSE IF Len(snap.examples) = 0
    THEN [examples |-> <<>>, err |-> NoError]
    ELSE [examples |-> applyLimit(snap.examples, effectiveLimit(maxExamplesArg, defaultMax)),
          err |-> NoError]

ListExamplesResult(d, defaultMax, hasIndex, hasResolver, id, maxExamplesArg, indexOut, resolverOut) ==
    LET found == lookupToolExists(hasIndex, hasResolver, indexOut, resolverOut)
        r == listFrom(id, maxExamplesArg, snapshotRecord(d, id), defaultMax, found)
    IN  [examples |-> r.examples, err |-> r.err, found |-> found]

----------------------------------------------------------------------------
(* The store as a state machine: one action per exported method.  A call   *)
(* writes what was asked into "call" and what came back into "ret"; Return *)
(* is the caller taking the result, after which the next call is made.     *)

NoCall == [op |-> "none"]
NoRet == [err |-> NoError]

Consulted(found, indexOut, resolverOut) ==
    [index |-> IF found.indexCalled THEN <<indexOut>> ELSE <<>>,
     resolver |-> IF found.resolverCalled THEN <<resolverOut>> ELSE <<>>]

RegisterDoc(id, entry) ==
    LET r == RegisterDocResult(docs, id, entry)
    IN  /\ call.op = "none"
        /\ docs' = r.docs
        /\ call' = [op |-> "RegisterDoc", id |-> id, entry |-> entry]
        /\ ret' = [err |-> r.err]
        /\ UNCHANGED <<index, toolResolver, maxExamples, heapVars, concVars>>

RegisterExamples(id, examples) ==
    LET r == RegisterExamplesResult(docs, id, examples)
    IN  /\ call.op = "none"
        /\ docs' = r.docs
        /\ call' = [op |-> "RegisterExamples", id |-> id, examples |-> examples]
        /\ ret' = [err |-> r.err]
        /\ UNCHANGED <<index, toolResolver, maxExamples, heapVars, concVars>>

DescribeTool(id, level, indexOut, resolverOut) ==
    LET r == DescribeToolResult(docs, maxExamples, index, toolResolver, id, level,
                                indexOut, resolverOut)
    IN  /\ call.op = "none"
        /\ call' = [op |-> "DescribeTool", id |-> id, level |-> level,
                    asked |-> Consulted(r.found, indexOut, resolverOut)]
        /\ ret' = [err |-> r.err, doc |-> r.doc]
        /\ UNCHANGED <<index, toolResolver, maxExamples, docs, heapVars, concVars>>

ListExamples(id, maxExamplesArg, indexOut, resolverOut) ==
    LET r == ListExamplesResult(docs, maxExamples, index, toolResolver, id,
                                maxExamplesArg, indexOut, resolverOut)
    IN  /\ call.op = "none"
        /\ call' = [op |-> "ListExamples", id |-> id, max |-> maxExamplesArg,
                    asked |-> Consulted(r.found, indexOut, resolverOut)]
        /\ ret' = [err |-> r.err, examples |-> r.examples]
        /\ UNCHANGED <<index, toolResolver, maxExamples, docs, heapVars, concVars>>

Return ==
    /\ call.op # "none"
    /\ call' = NoCall
    /\ ret' = NoRet
    /\ UNCHANGED <<index, toolResolver, maxExamples, docs, heapVars, concVars>>

----------------------------------------------------------------------------
(* Inputs of the store specification Spec *)

MaxBatch == 3       \* longest example list registered
MaxDefault == 2     \* largest StoreOptions.MaxExamples
MaxRequest == 3     \* largest maxExamples argument of ListExamples

Ids == {"", "docs:only"}
Levels == {DetailSummary, DetailSchema, DetailFull, "invalid", ""}

\* "docs", "Search API", ... as character codes
Chars(n) == [i \in 1..n |-> 96 + ((i - 1) % 26) + 1]

Example(k) ==
    ToolExample(<<101, 48 + k>>, <<69, 120, 48 + k>>, Chars(5 + k),
                MapAny(<<KV("n", IntV(k)), KV("labels", SliceAny(<<StrV("bug")>>))>>),
                Chars(k))

Batches == {[i \in 1..n |-> Example(i)] : n \in 0..MaxBatch}

Entries ==
    {DocEntry(Chars(4), Chars(9), b, <<Chars(7)>>) : b \in Batches}
    \cup {DocEntry(<<>>, <<>>, b, <<>>) : b \in Batches}

ObjectSchema ==
    MapAny(<<KV("type", StrV("object")),
             KV("required", SliceAny(<<StrV("query")>>)),
             KV("properties",
                MapAny(<<KV("query", MapAny(<<KV("type", StrV("string"))>>)),
                         KV("limit", MapAny(<<KV("type", StrV("integer")),
                                              KV("default", IntV(10))>>))>>))>>)

Tools == {Tool("search", Chars(10), ObjectSchema), Tool("bare", <<>>, Nil)}

ResolverErrs == {Errorf("resolver failure", <<>>), Errorf("resolver timeout", <<>>)}
IndexErr == Errorf("index: tool not found", <<>>)

Answer(tool, err) == [tool |-> tool, err |-> err]

IndexOutcomes == {Answer(<<t>>, <<>>) : t \in Tools} \cup {Answer(<<>>, IndexErr)}

ResolverOutcomes ==
    {Answer(<<t>>, <<>>) : t \in Tools}
    \cup {Answer(<<>>, <<>>)}
    \cup {Answer(<<>>, e) : e \in ResolverErrs}
    \cup {Answer(<<t>>, e) : t \in {Tool("bare", <<>>, Nil)}, e \in {Errorf("resolver failure", <<>>)}}

EmptyDocs == [x \in {} |-> docRecord(<<>>, <<>>, <<>>, <<>>)]

\* One caller at a time: the mutex is free and no goroutine is modelled.
InitOneCaller ==
    /\ mu = [w |-> FALSE, readers |-> 0]
    /\ threads = <<>>
    /\ log = <<>>

InitHeapIdle ==
    /\ heap = <<>>
    /\ hdocs = <<>>
    /\ hreg = <<>>
    /\ hret = <<>>
    /\ hseen = <<>>

\* NewInMemoryStore(opts)
Init ==
    /\ index \in BOOLEAN
    /\ toolResolver \in BOOLEAN
    /\ maxExamples \in 0..MaxDefault
    /\ docs = EmptyDocs
    /\ call = NoCall
    /\ ret = NoRet
    /\ InitHeapIdle
    /\ InitOneCaller

Next ==
    \/ \E id \in Ids, entry \in Entries : RegisterDoc(id, entry)
    \/ \E id \in Ids, examples \in Batches : RegisterExamples(id, examples)
    \/ \E id \in Ids, level \in Levels, io \in IndexOutcomes, ro \in ResolverOutcomes :
          DescribeTool(id, level, io, ro)
    \/ \E id \in Ids, m \in -1..MaxRequest, io \in IndexOutcomes, ro \in ResolverOutcomes :
          ListExamples(id, m, io, ro)
    \/ Return

Spec == Init /\ [][Next]_vars

----------------------------------------------------------------------------
(* Properties of the store, checked under Spec *)

IsDescribe == call.op = "DescribeTool"
IsList == call.op = "ListExamples"
HasRecord(id) == id \in DOMAIN docs
StoredCount(id) == IF HasRecord(id) THEN Len(docs[id].examples) ELSE 0

\* The lookup of the last call ended without a tool and without an error: the
\* index was absent or failed, and the resolver was absent or returned (nil, nil).
LookupFoundNothing ==
    /\ call.asked.index = <<>> \/ call.asked.index[1].err # <<>>
    /\ call.asked.resolver = <<>>
       \/ (call.asked.resolver[1].tool = <<>> /\ call.asked.resolver[1].err = <<>>)

\* The resolver was called by the last call and returned an error.
ResolverFailed == call.asked.resolver # <<>> /\ call.asked.resolver[1].err # <<>>

\* C1: with no record for id and a lookup that yields no tool, DescribeTool
\* fails with NotFound at each of the levels summary, schema and full.
C1_NotFoundWithoutRecordOrTool ==
    (IsDescribe /\ validLevel(call.level) /\ ~HasRecord(call.id) /\ LookupFoundNothing)
        => ErrorsIs(ret.err, ErrNotFound)

C1_Witness ==
    /\ IsDescribe /\ call.level = DetailFull /\ ~HasRecord(call.id)
    /\ DOMAIN docs # {}
    /\ call.asked.index # <<>> /\ call.asked.resolver # <<>>
    /\ LookupFoundNothing
    /\ ErrorsIs(ret.err, ErrNotFound)

\* C2: with a record for id and a lookup that yields no tool, DescribeTool
\* succeeds at summary and fails with NoTool at schema and at full.
C2_DocsOnlySummaryElseNoTool ==
    (IsDescribe /\ HasRecord(call.id) /\ LookupFoundNothing)
        => /\ call.level = DetailSummary => ret.err = NoError
           /\ call.level \in {DetailSchema, DetailFull} => ErrorsIs(ret.err, ErrNoTool)

C2_Witness ==
    /\ IsDescribe /\ call.level = DetailSchema /\ HasRecord(call.id)
    /\ call.asked.resolver # <<>> /\ LookupFoundNothing
    /\ ErrorsIs(ret.err, ErrNoTool)

\* C3: a level outside summary/schema/full fails with InvalidDetail whatever
\* the id and the store hold, and neither the index nor the resolver is asked.
C3_InvalidDetailFirst ==
    (IsDescribe /\ call.level \notin {DetailSummary, DetailSchema, DetailFull})
        => /\ ErrorsIs(ret.err, ErrInvalidDetail)
           /\ call.asked.index = <<>>
           /\ call.asked.resolver = <<>>

C3_Witness ==
    /\ IsDescribe /\ call.level = "" /\ ~HasRecord(call.id)
    /\ index /\ toolResolver
    /\ ErrorsIs(ret.err, ErrInvalidDetail)

\* C4: with no record for id, when the resolver is called and returns an
\* error, DescribeTool (summary, schema, full) and ListExamples return exactly
\* that error.
C4_ResolverErrorPropagates ==
    ((IsDescribe \/ IsList) /\ ~HasRecord(call.id) /\ ResolverFailed)
        => ret.err = call.asked.resolver[1].err

C4_Witness ==
    /\ IsDescribe /\ call.level = DetailSummary /\ ~HasRecord(call.id)
    /\ call.asked.index # <<>> /\ ResolverFailed
    /\ ret.err = Errorf("resolver timeout", <<>>)

LookupFoundTool ==
    \/ call.asked.index # <<>> /\ call.asked.index[1].err = <<>>
    \/ /\ call.asked.resolver # <<>>
       /\ call.asked.resolver[1].tool # <<>>
       /\ call.asked.resolver[1].err = <<>>

\* C11: the empty tool id is treated as not found: when neither the index nor
\* the resolver gives a tool for it, DescribeTool("", level) at every valid
\* level and ListExamples("", max) fail with NotFound in every reachable state.
C11_EmptyIdNotFound ==
    (((IsDescribe /\ validLevel(call.level)) \/ IsList)
        /\ call.id = "" /\ LookupFoundNothing)
        => ErrorsIs(ret.err, ErrNotFound)

\* C12: ListExamples succeeds whenever a record exists for id or the tool
\* resolves; it fails with NotFound exactly when there is no record and the
\* lookup reports no tool; and any other error is the resolver's, returned only
\* when no record exists and the resolver fails.
C12_ListExamplesOutcome ==
    IsList =>
        /\ (HasRecord(call.id) \/ LookupFoundTool) => ret.err = NoError
        /\ ErrorsIs(ret.err, ErrNotFound) <=> (~HasRecord(call.id) /\ LookupFoundNothing)
        /\ (ret.err # NoError /\ ~ErrorsIs(ret.err, ErrNotFound))
              => (~HasRecord(call.id) /\ ResolverFailed /\ ret.err = call.asked.resolver[1].err)

\* C13: whenever a record exists for id, DescribeTool(id, summary) succeeds,
\* whatever the lookup gave (a tool, nothing, an error) and even with an empty
\* summary in the record; and DescribeTool never succeeds at schema or full
\* unless the lookup found the tool, which the result then carries.
C13_RecordSufficesForSummaryOnly ==
    IsDescribe =>
        /\ (HasRecord(call.id) /\ call.level = DetailSummary) => ret.err = NoError
        /\ (call.level \in {DetailSchema, DetailFull} /\ ret.err = NoError)
              => (LookupFoundTool /\ ret.doc.Tool # <<>>)

C13_Witness ==
    /\ IsDescribe /\ call.level = DetailSummary
    /\ HasRecord(call.id) /\ docs[call.id].summary = <<>>
    /\ ResolverFailed
    /\ ret.err = NoError /\ ret.doc.Summary = <<>>

\* C19: a successful DescribeTool(id, full) returns the record's notes and
\* external refs and the first min(n, MaxExamples) of its n examples when
\* MaxExamples > 0, all n when MaxExamples = 0; without a record (the tool
\* alone) its notes, refs and examples are empty.
C19_FullCarriesRecord ==
    (IsDescribe /\ call.level = DetailFull /\ ret.err = NoError) =>
        IF HasRecord(call.id)
        THEN LET n == StoredCount(call.id)
                 k == IF maxExamples > 0 THEN Min(n, maxExamples) ELSE n
             IN  /\ ret.doc.Notes = docs[call.id].notes
                 /\ ret.doc.ExternalRefs = docs[call.id].externalRefs
                 /\ ret.doc.Examples = SubSeq(docs[call.id].examples, 1, k)
        ELSE /\ ret.doc.Notes = <<>>
             /\ ret.doc.ExternalRefs = <<>>
             /\ ret.doc.Examples = <<>>

C19_Witness ==
    /\ IsDescribe /\ call.level = DetailFull /\ ret.err = NoError
    /\ HasRecord(call.id) /\ StoredCount(call.id) = 3 /\ maxExamples = 2
    /\ ret.doc.Notes # <<>> /\ ret.doc.ExternalRefs # <<>>
    /\ ret.doc.Examples = SubSeq(docs[call.id].examples, 1, 2)

\* C20: a successful DescribeTool(id, summary) carries the summary alone (no
\* tool, no schema info, no notes, examples or refs) whatever the record and
\* the tool hold; a successful DescribeTool(id, schema) carries no notes, no
\* examples and no refs.
C20_ProgressiveDisclosure ==
    (IsDescribe /\ ret.err = NoError) =>
        /\ call.level = DetailSummary
              => ret.doc = ToolDoc(<<>>, ret.doc.Summary, <<>>, <<>>, <<>>, <<>>)
        /\ call.level = DetailSchema
              => /\ ret.doc.Notes = <<>>
                 /\ ret.doc.Examples = <<>>
                 /\ ret.doc.ExternalRefs = <<>>

C20_Witness ==
    /\ IsDescribe /\ call.level = DetailSchema /\ ret.err = NoError
    /\ HasRecord(call.id)
    /\ docs[call.id].notes # <<>> /\ docs[call.id].externalRefs # <<>>
    /\ StoredCount(call.id) > 0
    /\ ret.doc.Tool # <<>> /\ ret.doc.SchemaInfo # <<>>
    /\ ret.doc.Notes = <<>> /\ ret.doc.Examples = <<>>

----------------------------------------------------------------------------
(* The cap specification SpecCaps: the same store, created with the zero   *)
(* StoreOptions, registering examples whose Args sit on and around the     *)
(* depth and size caps.                                                    *)

RECURSIVE Wrap(_, _)
Wrap(v, times) == IF times = 0 THEN v ELSE Wrap(MapAny(<<KV("nested", v)>>), times - 1)

Fillers(n) == [i \in 1..n |-> KV(ToString(i), IntV(i))]

\* A map nested to exactly `depth` maps holding exactly `size` keys in all.
ArgsOf(depth, size) ==
    IF depth = 1 THEN MapAny(Fillers(size))
    ELSE MapAny(<<KV("nested", Wrap(MapAny(<<KV("value", StrV("leaf"))>>), depth - 2))>>
                \o Fillers(size - depth))

\* {"tags": []string{...n strings...}}: one key and n elements once normalised.
ArgsTags(n) ==
    MapAny(<<KV("tags", Typed("[]string", [i \in 1..n |-> StrV("t")]))>>)

\* Five nested maps, the innermost holding a map[string]int: six levels once normalised.
ArgsTypedLeaf ==
    MapAny(<<KV("nested", Wrap(MapAny(<<KV("counts", Typed("map[string]int", <<KV("a", IntV(1))>>))>>),
                               MaxArgsDepth - 2))>>)

\* Slices nested in slices: {"grid": [[[["x"]]]]} is five levels.
RECURSIVE WrapSlice(_, _)
WrapSlice(v, times) == IF times = 0 THEN v ELSE WrapSlice(SliceAny(<<v>>), times - 1)
ArgsGrid(depth) == MapAny(<<KV("grid", WrapSlice(StrV("x"), depth - 1))>>)

\* A value of a type deepCopyValue does not know (its default case).
Pointer(n) == [shape |-> "*struct", val |-> n]
ArgsPointer == MapAny(<<KV("when", Pointer(0))>>)

CapExample(title, args) == ToolExample(<<>>, title, Chars(3), args, <<>>)

ExSmall == CapExample(<<1>>, MapAny(<<KV("key", StrV("value"))>>))
ExAtCap == CapExample(<<2>>, ArgsOf(MaxArgsDepth, MaxArgsKeys))

WithinCaps ==
    {ExSmall, ExAtCap,
     CapExample(<<3>>, Nil),
     CapExample(<<4>>, ArgsTags(MaxArgsKeys - 1)),
     CapExample(<<5>>, ArgsGrid(MaxArgsDepth)),
     CapExample(<<6>>, ArgsPointer)}

OverCaps ==
    {CapExample(<<7>>, ArgsOf(MaxArgsDepth + 1, MaxArgsDepth + 1)),
     CapExample(<<8>>, ArgsOf(1, MaxArgsKeys + 1)),
     CapExample(<<9>>, ArgsOf(MaxArgsDepth, MaxArgsKeys + 1)),
     CapExample(<<10>>, ArgsTags(MaxArgsKeys)),
     CapExample(<<11>>, ArgsTypedLeaf),
     CapExample(<<12>>, ArgsGrid(MaxArgsDepth + 1))}

CapBatches ==
    {<<>>, <<ExSmall, ExAtCap>>}
    \cup {<<x>> : x \in WithinCaps \cup OverCaps}
    \cup {<<ExSmall, x>> : x \in OverCaps}
    \cup {<<x, ExSmall>> : x \in OverCaps}
    \cup {<<ExAtCap, x, ExSmall>> : x \in OverCaps}

CapEntries == {DocEntry(Chars(4), Chars(9), b, <<Chars(7)>>) : b \in CapBatches}

\* NewInMemoryStore(StoreOptions{})
InitCaps ==
    /\ index = FALSE
    /\ toolResolver = FALSE
    /\ maxExamples = 0
    /\ docs = EmptyDocs
    /\ call = NoCall
    /\ ret = NoRet
    /\ InitHeapIdle
    /\ InitOneCaller

NextCaps ==
    \/ \E id \in Ids, entry \in CapEntries : RegisterDoc(id, entry)
    \/ \E id \in Ids, examples \in CapBatches : RegisterExamples(id, examples)
    \/ \E id \in Ids, m \in {0, 1} :
          ListExamples(id, m, Answer(<<>>, IndexErr), Answer(<<>>, <<>>))
    \/ Return

SpecCaps == InitCaps /\ [][NextCaps]_vars

----------------------------------------------------------------------------
(* Properties of registration, checked under SpecCaps *)

IsRegister == call.op \in {"RegisterDoc", "RegisterExamples"}

\* The examples handed to the last registration.
Registered == IF call.op = "RegisterDoc" THEN call.entry.Examples ELSE call.examples

\* Depth and size of an Args value as the caps define them: depth 1 for the
\* top-level map and one more per nested map or slice, size the number of
\* keys and elements of all maps and slices.  Maps and slices of any element
\* type count; other values are primitives.
ContainerShapes == {"map[string]any", "[]any"} \cup TypedMapShapes \cup TypedSliceShapes
IsMapShape(v) == v.shape \in {"map[string]any"} \cup TypedMapShapes

RECURSIVE NestingDepth(_)
RECURSIVE NestingSize(_)
Children(v) ==
    IF IsMapShape(v) THEN [i \in 1..Len(v.items) |-> v.items[i].v] ELSE v.items

RECURSIVE MaxOver(_)
MaxOver(ns) == IF ns = <<>> THEN 0 ELSE Max(Head(ns), MaxOver(Tail(ns)))
RECURSIVE SumOver(_)
SumOver(ns) == IF ns = <<>> THEN 0 ELSE Head(ns) + SumOver(Tail(ns))

NestingDepth(v) ==
    IF v.shape \notin ContainerShapes THEN 0
    ELSE 1 + MaxOver([i \in 1..Len(v.items) |-> NestingDepth(Children(v)[i])])

NestingSize(v) ==
    IF v.shape \notin ContainerShapes THEN 0
    ELSE Len(v.items) + SumOver([i \in 1..Len(v.items) |-> NestingSize(Children(v)[i])])

FitsCaps(args) == NestingDepth(args) <= MaxArgsDepth /\ NestingSize(args) <= MaxArgsKeys

\* C5: a registration that fails with ArgsTooLarge leaves the id -> record
\* map exactly as it was: no record created, no field of a record changed, no
\* example of the batch stored.
C5_FailedRegistrationChangesNothing ==
    [][(call'.op \in {"RegisterDoc", "RegisterExamples"} /\ call.op = "none"
        /\ ErrorsIs(ret'.err, ErrArgsTooLarge)) => docs' = docs]_vars

C5_Witness ==
    /\ call.op = "RegisterDoc" /\ ErrorsIs(ret.err, ErrArgsTooLarge)
    /\ Len(call.entry.Examples) = 3
    /\ FitsCaps(call.entry.Examples[1].Args)
    /\ ~FitsCaps(call.entry.Examples[2].Args)
    /\ HasRecord(call.id) /\ docs[call.id].summary = <<>>
    /\ Len(docs[call.id].examples) = 1

----------------------------------------------------------------------------
(* The text specification SpecText: a store created with a resolver and no *)
(* index, one tool id, and entries, examples and tool descriptions whose   *)
(* strings sit on and beyond the length caps.  The caller remembers in     *)
(* hseen the call it made before the current one and what it returned.     *)

TextId == "docs:only"

\* n letters, starting k letters after "a"
Letters(k, n) == [i \in 1..n |-> 97 + ((i - 1 + k) % 26)]

TextExample(k, descriptionLen, hintLen, args) ==
    ToolExample(<<101, 48 + k>>, <<84, 48 + k>>, Letters(k, descriptionLen), args,
                Letters(k + 1, hintLen))

ExOverlong == TextExample(1, MaxDescriptionLen + 1, MaxResultHintLen + 1, ArgsTags(2))
ExFull == TextExample(2, MaxDescriptionLen, MaxResultHintLen, Nil)
ExTooLarge == TextExample(3, 4, 4, ArgsTags(MaxArgsKeys))

TextBatches == {<<>>, <<ExOverlong>>, <<ExFull, Example(1)>>, <<ExTooLarge>>}

TextEntries ==
    {DocEntry(Letters(1, MaxSummaryLen + 1), Letters(2, MaxNotesLen + 1),
              <<ExOverlong>>, <<Chars(7)>>),
     DocEntry(Letters(3, MaxSummaryLen), Letters(4, MaxNotesLen),
              <<ExFull, Example(1)>>, <<Chars(7), Chars(3)>>),
     DocEntry(Chars(4), Chars(9), <<ExTooLarge>>, <<>>),
     DocEntry(<<>>, <<>>, <<>>, <<>>)}

TextTools ==
    {Tool("long", Letters(5, MaxSummaryLen + 1), Nil),
     Tool("search", Chars(10), ObjectSchema),
     Tool("bare", <<>>, Nil)}

TextResolverOutcomes ==
    {Answer(<<t>>, <<>>) : t \in TextTools}
    \cup {Answer(<<>>, <<>>), Answer(<<>>, Errorf("resolver failure", <<>>))}

NothingSeen == [call |-> NoCall, ret |-> NoRet]

\* NewInMemoryStore(StoreOptions{ToolResolver: ..., MaxExamples: 1})
InitText ==
    /\ index = FALSE
    /\ toolResolver = TRUE
    /\ maxExamples = 1
    /\ docs = EmptyDocs
    /\ call = NoCall
    /\ ret = NoRet
    /\ heap = <<>>
    /\ hdocs = <<>>
    /\ hreg = <<>>
    /\ hret = <<>>
    /\ hseen = NothingSeen
    /\ InitOneCaller

\* The caller takes the result, and keeps it in mind for the next call.
ReturnSeen ==
    /\ call.op # "none"
    /\ hseen' = [call |-> call, ret |-> ret]
    /\ call' = NoCall
    /\ ret' = NoRet
    /\ UNCHANGED <<index, toolResolver, maxExamples, docs, heap, hdocs, hreg, hret, concVars>>

NextText ==
    \/ \E entry \in TextEntries : RegisterDoc(TextId, entry)
    \/ \E examples \in TextBatches : RegisterExamples(TextId, examples)
    \/ \E level \in {DetailSummary, DetailSchema, DetailFull}, ro \in TextResolverOutcomes :
          DescribeTool(TextId, level, Answer(<<>>, IndexErr), ro)
    \/ ReturnSeen

SpecText == InitText /\ [][NextText]_vars

----------------------------------------------------------------------------
(* Properties of truncation and replacement, checked under SpecText *)

\* The first n characters of s, all of s when it has no more.
Prefix(s, n) == SubSeq(s, 1, Min(Len(s), n))

\* An Args value in the MCP-native shapes: every map a map[string]any, every
\* slice a []any, the other values as they are.
RECURSIVE Normalised(_)
Normalised(v) ==
    IF v.shape \notin ContainerShapes THEN v
    ELSE IF IsMapShape(v)
    THEN MapAny([i \in 1..Len(v.items) |-> KV(v.items[i].k, Normalised(v.items[i].v))])
    ELSE SliceAny([i \in 1..Len(v.items) |-> Normalised(v.items[i])])

\* The examples a record holds once xs is registered.
Committed(xs) ==
    [i \in 1..Len(xs) |->
        ToolExample(xs[i].ID, xs[i].Title, Prefix(xs[i].Description, MaxDescriptionLen),
                    Normalised(xs[i].Args), Prefix(xs[i].ResultHint, MaxResultHintLen))]

\* The tool the lookup of the last call found.
FoundTool ==
    IF call.asked.index # <<>> /\ call.asked.index[1].err = <<>>
    THEN call.asked.index[1].tool[1]
    ELSE call.asked.resolver[1].tool[1]

\* The call before the current one was a successful RegisterDoc.
JustRegisteredDoc == hseen.call.op = "RegisterDoc" /\ hseen.ret.err = NoError

\* C14: a successful DescribeTool returns the record's summary whenever the
\* record has a non-empty one, whatever the tool's description; without a
\* record, or with an empty summary in it, and a tool found, it returns the
\* tool's description cut to the summary cap of 200.
C14_SummaryPrecedence ==
    (IsDescribe /\ ret.err = NoError) =>
        IF HasRecord(call.id) /\ docs[call.id].summary # <<>>
        THEN ret.doc.Summary = docs[call.id].summary
        ELSE LookupFoundTool
                => ret.doc.Summary = Prefix(FoundTool.Description, MaxSummaryLen)

C14_Witness ==
    /\ IsDescribe /\ call.level = DetailSummary /\ ret.err = NoError
    /\ HasRecord(call.id) /\ docs[call.id].summary = <<>>
    /\ LookupFoundTool /\ Len(FoundTool.Description) = MaxSummaryLen + 1
    /\ ret.doc.Summary = SubSeq(FoundTool.Description, 1, MaxSummaryLen)

\* C15 as claimed: DescribeTool(id, summary) right after a successful
\* RegisterDoc(id, e) returns e.Summary cut to the summary cap of 200.
C15_RegisterThenSummary ==
    (IsDescribe /\ call.level = DetailSummary /\ JustRegisteredDoc
        /\ call.id = hseen.call.id)
        => /\ ret.err = NoError
           /\ ret.doc.Summary = Prefix(hseen.call.entry.Summary, MaxSummaryLen)

\* C15 amended: DescribeTool(id, summary) right after a successful
\* RegisterDoc(id, e) succeeds, and returns e.Summary cut to the summary cap of
\* 200 when e.Summary is not empty; when e.Summary is empty it returns the
\* description of the tool the lookup found, cut to the same cap, and the empty
\* string when the lookup found no tool.
C15_RegisterThenSummaryOrDescription ==
    (IsDescribe /\ call.level = DetailSummary /\ JustRegisteredDoc
        /\ call.id = hseen.call.id)
        => /\ ret.err = NoError
           /\ ret.doc.Summary =
                 IF hseen.call.entry.Summary # <<>>
                 THEN Prefix(hseen.call.entry.Summary, MaxSummaryLen)
                 ELSE IF LookupFoundTool
                 THEN Prefix(FoundTool.Description, MaxSummaryLen)
                 ELSE <<>>

C15_Witness ==
    /\ IsDescribe /\ call.level = DetailSummary /\ JustRegisteredDoc
    /\ Len(hseen.call.entry.Summary) = MaxSummaryLen + 1
    /\ LookupFoundTool /\ FoundTool.Description # <<>>
    /\ ret.err = NoError
    /\ ret.doc.Summary = SubSeq(hseen.call.entry.Summary, 1, MaxSummaryLen)

\* C16: after a successful RegisterDoc(id, e) the record of id is exactly e's
\* summary and notes cut to their caps, e's examples normalised and cut, and
\* e's external refs: nothing of the record before it is left, also when e has
\* no examples or refs, and the record is created when there was none.
C16_RegisterDocReplacesRecord ==
    (call.op = "RegisterDoc" /\ ret.err = NoError)
        => /\ HasRecord(call.id)
           /\ docs[call.id] = docRecord(Prefix(call.entry.Summary, MaxSummaryLen),
                                        Prefix(call.entry.Notes, MaxNotesLen),
                                        Committed(call.entry.Examples),
                                        call.entry.ExternalRefs)

\* RegisterExamples stored two examples, and the RegisterDoc after it, of an
\* entry without examples and refs, left none.
C16_Witness ==
    /\ call.op = "RegisterDoc" /\ ret.err = NoError
    /\ call.entry.Examples = <<>> /\ call.entry.ExternalRefs = <<>>
    /\ hseen.call.op = "RegisterExamples" /\ hseen.ret.err = NoError
    /\ Len(hseen.call.examples) = 2
    /\ docs[call.id] = docRecord(<<>>, <<>>, <<>>, <<>>)

\* C17: a successful RegisterExamples(id, xs) on an id that has a record
\* leaves the record's summary, notes and external refs as they were and makes
\* its examples exactly xs, normalised and cut (the examples before are
\* discarded, not appended to).
C17_RegisterExamplesReplacesExamplesOnly ==
    [][(call.op = "none" /\ call'.op = "RegisterExamples" /\ ret'.err = NoError
        /\ call'.id \in DOMAIN docs)
        => docs'[call'.id] =
              [docs[call'.id] EXCEPT !.examples = Committed(call'.examples)]]_vars

\* Two examples were stored, then one example whose description and hint are
\* over the caps, on a record that has a summary, notes and refs.
C17_Witness ==
    /\ call.op = "RegisterExamples" /\ ret.err = NoError
    /\ hseen.call.op = "RegisterExamples" /\ hseen.ret.err = NoError
    /\ Len(hseen.call.examples) = 2
    /\ call.examples = <<ExOverlong>>
    /\ docs[call.id].summary # <<>> /\ docs[call.id].notes # <<>>
    /\ docs[call.id].externalRefs # <<>>
    /\ Len(docs[call.id].examples) = 1
    /\ Len(docs[call.id].examples[1].Description) = MaxDescriptionLen
    /\ docs[call.id].examples[1].Args.items[1].v.shape = "[]any"

\* C18: in every reachable state every record has a summary of at most 200
\* and notes of at most 2000 characters, and every stored example a
\* description of at most 300 and a result hint of at most 200 characters.
C18_LengthBounds ==
    \A id \in DOMAIN docs :
        /\ Len(docs[id].summary) <= MaxSummaryLen
        /\ Len(docs[id].notes) <= MaxNotesLen
        /\ \A i \in 1..Len(docs[id].examples) :
              /\ Len(docs[id].examples[i].Description) <= MaxDescriptionLen
              /\ Len(docs[id].examples[i].ResultHint) <= MaxResultHintLen

C18_Witness ==
    /\ call.op = "RegisterDoc" /\ ret.err = NoError
    /\ Len(call.entry.Summary) = MaxSummaryLen + 1
    /\ Len(call.entry.Notes) = MaxNotesLen + 1
    /\ Len(call.entry.Examples[1].Description) = MaxDescriptionLen + 1
    /\ Len(call.entry.Examples[1].ResultHint) = MaxResultHintLen + 1
    /\ Len(docs[call.id].summary) = MaxSummaryLen
    /\ Len(docs[call.id].notes) = MaxNotesLen
    /\ Len(docs[call.id].examples[1].Description) = MaxDescriptionLen
    /\ Len(docs[call.id].examples[1].ResultHint) = MaxResultHintLen

----------------------------------------------------------------------------
(* Properties of lookup and listing, checked under Spec *)

\* C21: every successful DescribeTool at schema or full carries a tool, and it
\* is the tool the index or the resolver returned in that call.
C21_ToolIsTheOneFound ==
    (IsDescribe /\ call.level \in {DetailSchema, DetailFull} /\ ret.err = NoError)
        => /\ LookupFoundTool
           /\ ret.doc.Tool = <<FoundTool>>

C21_Witness ==
    /\ IsDescribe /\ call.level = DetailSchema /\ ret.err = NoError
    /\ ~HasRecord(call.id)
    /\ call.asked.index # <<>> /\ call.asked.index[1].err # <<>>
    /\ call.asked.resolver # <<>>
    /\ ret.doc.Tool = call.asked.resolver[1].tool
    /\ ret.doc.Tool[1].Name = "search"

\* C28: at schema and full, when the lookup gave no tool: the resolver's
\* error is returned if the resolver failed, also when a record exists;
\* otherwise NotFound when no record exists; otherwise NoTool.
C28_ErrorPrecedence ==
    (IsDescribe /\ call.level \in {DetailSchema, DetailFull} /\ ~LookupFoundTool)
        => IF ResolverFailed THEN ret.err = call.asked.resolver[1].err
           ELSE IF ~HasRecord(call.id) THEN ErrorsIs(ret.err, ErrNotFound)
           ELSE ErrorsIs(ret.err, ErrNoTool)

C28_Witness ==
    /\ IsDescribe /\ call.level = DetailFull /\ HasRecord(call.id)
    /\ ResolverFailed
    /\ ret.err = Errorf("resolver failure", <<>>)

\* C29: DescribeTool (at a valid level) and ListExamples ask the index first
\* whenever one is configured, and ask the resolver only when no index is
\* configured or the index did not give the tool; when the index gives the
\* tool the resolver is not called and the call does not fail.
C29_ResolutionOrder ==
    ((IsDescribe /\ validLevel(call.level)) \/ IsList)
        => /\ index <=> call.asked.index # <<>>
           /\ call.asked.resolver # <<>>
                 => /\ toolResolver
                    /\ call.asked.index = <<>> \/ call.asked.index[1].err # <<>>
           /\ (call.asked.index # <<>> /\ call.asked.index[1].err = <<>>)
                 => (call.asked.resolver = <<>> /\ ret.err = NoError)

C29_Witness ==
    /\ IsDescribe /\ call.level = DetailFull
    /\ index /\ toolResolver
    /\ call.asked.index # <<>> /\ call.asked.index[1].err = <<>>
    /\ call.asked.resolver = <<>>
    /\ ret.err = NoError

\* The limit ListExamples works with, 0 for none: the smaller of the request
\* and the configured default when both are positive, else the positive one.
ListLimit ==
    IF call.max > 0 /\ maxExamples > 0 THEN Min(call.max, maxExamples)
    ELSE IF call.max > 0 THEN call.max
    ELSE IF maxExamples > 0 THEN maxExamples
    ELSE 0

\* C30: a successful ListExamples returns the stored examples in their
\* order, and when its limit k is smaller than their number exactly the first
\* k of them, each with the stored ID, title, description and result hint.
C30_PrefixInOrder ==
    (IsList /\ ret.err = NoError)
        => LET n == StoredCount(call.id)
               k == IF ListLimit > 0 /\ ListLimit < n THEN ListLimit ELSE n
           IN  /\ Len(ret.examples) = k
               /\ \A i \in 1..k :
                     /\ ret.examples[i].ID = docs[call.id].examples[i].ID
                     /\ ret.examples[i].Title = docs[call.id].examples[i].Title
                     /\ ret.examples[i].Description = docs[call.id].examples[i].Description
                     /\ ret.examples[i].ResultHint = docs[call.id].examples[i].ResultHint
                     /\ ret.examples[i].Args = docs[call.id].examples[i].Args

C30_Witness ==
    /\ IsList /\ ret.err = NoError
    /\ StoredCount(call.id) = 3 /\ call.max = 2 /\ maxExamples = 0
    /\ ret.examples = <<docs[call.id].examples[1], docs[call.id].examples[2]>>
    /\ ret.examples[1].ResultHint # ret.examples[2].ResultHint

----------------------------------------------------------------------------
(* The reference-level specification SpecAlias.  Maps, slices and pointers *)
(* are Go reference types: the heap is a sequence of cells, a reference is *)
(* a cell's position, and an `any` holding a container holds a reference.  *)
(* deepCopyArgs and deepCopyValue are modelled by the cells they allocate  *)
(* and the references they keep; the caller may write through every        *)
(* reference it holds (the Args it passed in, the Args it got back).       *)

MaxHeld == 2        \* results of ListExamples the caller keeps hold of

Ref(a) == [shape |-> "ref", addr |-> a]
IsRef(v) == v.shape = "ref"
HeapMapShapes == {"map[string]any"} \cup TypedMapShapes
HeapSliceShapes == {"[]any", "[]ToolExample"} \cup TypedSliceShapes

\* The contents reachable from v, as a value.
RECURSIVE Deref(_, _)
Deref(h, v) ==
    IF ~IsRef(v) THEN v
    ELSE LET c == h[v.addr]
         IN  IF c.shape \in HeapMapShapes
             THEN [shape |-> c.shape,
                   items |-> [i \in 1..Len(c.items) |->
                                 KV(c.items[i].k, Deref(h, c.items[i].v))]]
             ELSE IF c.shape \in HeapSliceShapes
             THEN [shape |-> c.shape,
                   items |-> [i \in 1..Len(c.items) |-> Deref(h, c.items[i])]]
             ELSE c

CellChildren(c) ==
    IF c.shape \in HeapMapShapes THEN {c.items[i].v : i \in 1..Len(c.items)}
    ELSE IF c.shape \in HeapSliceShapes THEN {c.items[i] : i \in 1..Len(c.items)}
    ELSE {}

\* The cells reachable from v.
RECURSIVE Reach(_, _)
Reach(h, v) ==
    IF ~IsRef(v) THEN {}
    ELSE {v.addr} \cup UNION {Reach(h, w) : w \in CellChildren(h[v.addr])}

ReachAll(h, refs) == UNION {Reach(h, refs[i]) : i \in 1..Len(refs)}

RECURSIVE copyValueOnHeap(_, _)
RECURSIVE copyMapItems(_, _, _)
RECURSIVE copySliceItems(_, _, _)

\* "for k, v := range args { result[k] = deepCopyValue(v) }"
copyMapItems(h, items, done) ==
    IF items = <<>> THEN [h |-> h, items |-> done]
    ELSE LET r == copyValueOnHeap(h, Head(items).v)
         IN  copyMapItems(r.h, Tail(items), Append(done, KV(Head(items).k, r.v)))

\* "for i, v := range s { result[i] = deepCopyValue(v) }"
copySliceItems(h, items, done) ==
    IF items = <<>> THEN [h |-> h, items |-> done]
    ELSE LET r == copyValueOnHeap(h, Head(items))
         IN  copySliceItems(r.h, Tail(items), Append(done, r.v))

\* make(...) of a new container: a fresh cell and the reference to it.
Allocate(h, cell) == [h |-> Append(h, cell), v |-> Ref(Len(h) + 1)]

\* Mutant: a []any is returned as it is, sharing its backing array.
copyValueOnHeap_SharesSlices(h, v) ==
    IF ~IsRef(v) THEN [h |-> h, v |-> v]
    ELSE LET c == h[v.addr]
         IN  CASE c.shape = "map[string]any" ->
                    LET r == copyMapItems(h, c.items, <<>>)
                    IN  Allocate(r.h, MapAny(r.items))
               [] c.shape \in TypedMapShapes -> Allocate(h, MapAny(c.items))
               [] c.shape \in TypedSliceShapes -> Allocate(h, SliceAny(c.items))
               [] OTHER -> [h |-> h, v |-> v]

\* deepCopyValue (with deepCopyArgs and deepCopySlice for the two untyped
\* containers) on the heap: the new heap and the value to store.
copyValueOnHeap(h, v) ==
    IF ~IsRef(v) THEN [h |-> h, v |-> v]
    ELSE LET c == h[v.addr]
         IN  CASE c.shape = "map[string]any" ->
                    LET r == copyMapItems(h, c.items, <<>>)
                    IN  Allocate(r.h, MapAny(r.items))
               [] c.shape = "[]any" ->
                    LET r == copySliceItems(h, c.items, <<>>)
                    IN  Allocate(r.h, SliceAny(r.items))
               [] c.shape \in TypedMapShapes -> Allocate(h, MapAny(c.items))
               [] c.shape \in TypedSliceShapes -> Allocate(h, SliceAny(c.items))
               [] OTHER -> [h |-> h, v |-> v]

\* copyExamples on the heap: every stored Args copied in turn.
RECURSIVE copyArgsOnHeap(_, _, _)
copyArgsOnHeap(h, refs, done) ==
    IF refs = <<>> THEN [h |-> h, refs |-> done]
    ELSE LET r == copyValueOnHeap(h, Head(refs))
         IN  copyArgsOnHeap(r.h, Tail(refs), Append(done, r.v))

\* What the caller holds before the first call: two Args maps,
\*   {"key": "original", "nested_slice": []any{"a", "b"}}       (cell 2)
\*   {"tags": []string{"x"}, "when": <pointer to a struct>}    (cell 5)
\* and an ExternalRefs slice, []string{"https://example.com"}   (cell 6).
CallerHeap ==
    << SliceAny(<<StrV("a"), StrV("b")>>),
       MapAny(<<KV("key", StrV("original")), KV("nested_slice", Ref(1))>>),
       Typed("[]string", <<StrV("x")>>),
       Pointer(0),
       MapAny(<<KV("tags", Ref(3)), KV("when", Ref(4))>>),
       Typed("[]string", <<StrV("https://example.com")>>) >>

CallerArgs == {Ref(2), Ref(5)}
CallerRefs == Ref(6)

\* Go's garbage collector: the cells no reference leads to are dropped.  The
\* cells kept are renumbered in their order, addresses not being observable.
LiveCells(h, hd, hr) ==
    UNION {Reach(h, r) : r \in CallerArgs \cup {CallerRefs}}
    \cup UNION {ReachAll(h, hd[id]) : id \in DOMAIN hd}
    \cup UNION {ReachAll(h, hr[i]) : i \in 1..Len(hr)}

Rank(live, a) == Cardinality({b \in live : b <= a})
Moved(live, v) == IF IsRef(v) THEN Ref(Rank(live, v.addr)) ELSE v
MovedAll(live, refs) == [i \in 1..Len(refs) |-> Moved(live, refs[i])]
MovedCell(live, c) ==
    IF c.shape \in HeapMapShapes
    THEN [c EXCEPT !.items = [i \in 1..Len(c.items) |->
                                 KV(c.items[i].k, Moved(live, c.items[i].v))]]
    ELSE IF c.shape \in HeapSliceShapes
    THEN [c EXCEPT !.items = MovedAll(live, c.items)]
    ELSE c

Collect(h, hd, hr) ==
    LET live == LiveCells(h, hd, hr)
    IN  [heap |-> [i \in 1..Cardinality(live) |->
                      MovedCell(live, h[CHOOSE a \in live : Rank(live, a) = i])],
         hdocs |-> [id \in DOMAIN hd |-> MovedAll(live, hd[id])],
         hret |-> [i \in 1..Len(hr) |-> MovedAll(live, hr[i])]]

InitAlias ==
    /\ index = FALSE
    /\ toolResolver = FALSE
    /\ maxExamples = 0
    /\ docs = EmptyDocs
    /\ call = NoCall
    /\ ret = NoRet
    /\ heap = CallerHeap
    /\ hdocs = EmptyDocs
    /\ hreg = EmptyDocs
    /\ hret = <<>>
    /\ hseen = [op |-> "none"]
    /\ InitOneCaller

\* RegisterDoc(id, DocEntry{Examples: {{Args: args}}}) as it acts on the heap:
\* copy, validate the copy, then record.examples = examples.
RegisterDocOnHeap(id, args) ==
    LET r == copyValueOnHeap(heap, args)
        valid == ValidateArgs(Deref(r.h, r.v)).valid
        gc == Collect(r.h, IF valid THEN Put(hdocs, id, <<r.v>>) ELSE hdocs, hret)
    IN  /\ heap' = gc.heap
        /\ hdocs' = gc.hdocs
        /\ hret' = gc.hret
        /\ hreg' = IF valid THEN Put(hreg, id, <<Deref(r.h, r.v)>>) ELSE hreg
        /\ hseen' = [op |-> "RegisterDoc"]

\* ListExamples(id, 0) as it acts on the heap: copyExamples under the read
\* lock, the copies returned; NotFound without a record (no index, no resolver).
\* The caller keeps the result, and lets go of the oldest beyond MaxHeld.
ListExamplesOnHeap(id) ==
    IF id \in DOMAIN hdocs
    THEN LET r == copyArgsOnHeap(heap, hdocs[id], <<>>)
             held == SubSeq(<<r.refs>> \o hret, 1, Min(MaxHeld, Len(hret) + 1))
             gc == Collect(r.h, hdocs, held)
         IN  /\ heap' = gc.heap
             /\ hdocs' = gc.hdocs
             /\ hret' = gc.hret
             /\ hseen' = [op |-> "ListExamples", id |-> id, err |-> NoError,
                          args |-> [i \in 1..Len(r.refs) |-> Deref(r.h, r.refs[i])]]
             /\ UNCHANGED hreg
    ELSE /\ hseen' = [op |-> "ListExamples", id |-> id, err |-> Errorf(ErrNotFound, id),
                      args |-> <<>>]
         /\ UNCHANGED <<heap, hdocs, hreg, hret>>

\* A write by the caller through a reference it holds: the first element of a
\* map or slice, or the struct behind a pointer, is overwritten.
Overwritten(c) ==
    IF c.shape \in HeapMapShapes
    THEN [c EXCEPT !.items[1].v = StrV("mutated")]
    ELSE IF c.shape \in HeapSliceShapes
    THEN [c EXCEPT !.items[1] = StrV("mutated")]
    ELSE [c EXCEPT !.val = 1]

Writable(c) ==
    IF c.shape \in HeapMapShapes THEN Len(c.items) > 0 /\ ~IsRef(c.items[1].v)
    ELSE IF c.shape \in HeapSliceShapes THEN Len(c.items) > 0 /\ ~IsRef(c.items[1])
    ELSE TRUE

Write(a) ==
    /\ Writable(heap[a])
    /\ Overwritten(heap[a]) # heap[a]
    /\ heap' = [heap EXCEPT ![a] = Overwritten(heap[a])]
    /\ hseen' = [op |-> "write"]
    /\ UNCHANGED <<hdocs, hreg, hret>>

\* originalArgs["key"] = "mutated", nestedSlice[0] = "mutated", ...
MutatePassedArgs == \E args \in CallerArgs : \E a \in Reach(heap, args) : Write(a)

\* examples[0].Args["key"] = "returned-mutated", ...
MutateReturnedArgs ==
    \E i \in 1..Len(hret) : \E a \in ReachAll(heap, hret[i]) : Write(a)

NextAlias ==
    \/ \E args \in CallerArgs : RegisterDocOnHeap("docs:only", args) /\ UNCHANGED <<storeVars, concVars>>
    \/ \E id \in Ids : ListExamplesOnHeap(id) /\ UNCHANGED <<storeVars, concVars>>
    \/ MutatePassedArgs /\ UNCHANGED <<storeVars, concVars>>
    \/ MutateReturnedArgs /\ UNCHANGED <<storeVars, concVars>>

SpecAlias == InitAlias /\ [][NextAlias]_vars

----------------------------------------------------------------------------
(* Properties of copy isolation, checked under SpecAlias *)

\* Every value in v is of a type deepCopyValue has a case for.
RECURSIVE Recognised(_)
Recognised(v) ==
    IF v.shape = "map[string]any" THEN \A i \in 1..Len(v.items) : Recognised(v.items[i].v)
    ELSE IF v.shape = "[]any" THEN \A i \in 1..Len(v.items) : Recognised(v.items[i])
    ELSE v.shape \in {"nil", "string", "int", "bool", "float64"}

Returned == hseen.op = "ListExamples" /\ hseen.err = NoError

\* C8 as claimed: whatever the caller wrote into the Args it passed in or
\* into Args returned before, ListExamples returns the contents that were
\* registered, and the Args it returns share no cell with the stored Args.
C8_ArgsIsolated ==
    Returned =>
        /\ hseen.args = hreg[hseen.id]
        /\ ReachAll(heap, hret[1]) \cap ReachAll(heap, hdocs[hseen.id]) = {}

\* C8 amended: the same, for registered Args made only of values whose type
\* deepCopyValue recognises (nil, scalars, map[string]any, []any and the typed
\* maps and slices of string, int, float64 and bool).
C8_RecognisedArgsIsolated ==
    (Returned /\ \A i \in 1..Len(hreg[hseen.id]) : Recognised(hreg[hseen.id][i]))
        => /\ hseen.args = hreg[hseen.id]
           /\ ReachAll(heap, hret[1]) \cap ReachAll(heap, hdocs[hseen.id]) = {}

\* A result equal to what was registered, although the Args passed in were
\* overwritten at the top and in the nested slice after the registration, and
\* the result returned before was overwritten in its nested slice.
C8_Witness ==
    /\ Returned
    /\ \A i \in 1..Len(hreg[hseen.id]) : Recognised(hreg[hseen.id][i])
    /\ hseen.args = hreg[hseen.id]
    /\ hreg[hseen.id][1].items[1].v = StrV("original")
    /\ hreg[hseen.id][1].items[2].v = SliceAny(<<StrV("a"), StrV("b")>>)
    /\ heap[2].items[1].v = StrV("mutated")
    /\ heap[1].items[1] = StrV("mutated")
    /\ Len(hret) = 2
    /\ Deref(heap, hret[2][1]).items[2].v = SliceAny(<<StrV("mutated"), StrV("b")>>)
    /\ Deref(heap, hret[2][1]).items[1].v = StrV("mutated")

----------------------------------------------------------------------------
(* The reference-level specification SpecOwned: a store with a resolver,    *)
(* whose record holds two references, <<examples, externalRefs>>.  The      *)
(* examples slice is a cell of shape []ToolExample whose items are the      *)
(* examples' Args; DescribeTool at the full level hands the caller a        *)
(* ToolDoc made of its own two references.                                  *)

MaxKept == 1        \* ToolDocs the caller keeps hold of

\* Mutant: the slice is stored and returned as it is, no copy made.
copyStringsOnHeap_Shares(h, v) == [h |-> h, v |-> v]

\* "externalRefs := make([]string, len(...)); copy(externalRefs, ...)"
copyStringsOnHeap(h, v) == Allocate(h, Typed("[]string", h[v.addr].items))

\* copyExamples on the heap: a new slice holding a copy of every Args.
copyExamplesOnHeap(h, v) ==
    LET r == copyArgsOnHeap(h, h[v.addr].items, <<>>)
    IN  Allocate(r.h, Typed("[]ToolExample", r.refs))

\* The contents the references of a record or of a ToolDoc lead to.
Contents(h, refs) == [i \in 1..Len(refs) |-> Deref(h, refs[i])]

OwnedTool == Tool("bare", <<>>, Nil)
OwnedResolverOutcomes == {Answer(<<OwnedTool>>, <<>>), Answer(<<>>, <<>>)}

InitOwned ==
    /\ index = FALSE
    /\ toolResolver = TRUE
    /\ maxExamples = 0
    /\ docs = EmptyDocs
    /\ call = NoCall
    /\ ret = NoRet
    /\ heap = CallerHeap
    /\ hdocs = EmptyDocs
    /\ hreg = EmptyDocs
    /\ hret = <<>>
    /\ hseen = [op |-> "none"]
    /\ InitOneCaller

\* RegisterDoc(id, DocEntry{Examples: {{Args: args}}, ExternalRefs: refs}) as
\* it acts on the heap: the Args copied and validated, the refs copied, then
\* record.examples = examples and record.externalRefs = externalRefs.
RegisterDocOwned(id, args, refs) ==
    LET r == copyValueOnHeap(heap, args)
        valid == ValidateArgs(Deref(r.h, r.v)).valid
        ex == Allocate(r.h, Typed("[]ToolExample", <<r.v>>))
        er == copyStringsOnHeap(ex.h, refs)
        gc == Collect(er.h, IF valid THEN Put(hdocs, id, <<ex.v, er.v>>) ELSE hdocs, hret)
    IN  /\ heap' = gc.heap
        /\ hdocs' = gc.hdocs
        /\ hret' = gc.hret
        /\ hreg' = IF valid THEN Put(hreg, id, Contents(er.h, <<ex.v, er.v>>)) ELSE hreg
        /\ hseen' = [op |-> "RegisterDoc"]

\* DescribeTool(id, DetailFull) as it acts on the heap: the record's examples
\* and refs copied under the read lock, the resolver asked, the copies
\* returned in the ToolDoc.  The caller keeps the ToolDoc, and lets go of the
\* oldest beyond MaxKept.
DescribeToolOwned(id, resolverOut) ==
    LET hasDoc == id \in DOMAIN hdocs
        found == lookupTool(index, toolResolver, Answer(<<>>, IndexErr), resolverOut)
    IN  IF found.tool = <<>>
        THEN /\ hseen' = [op |-> "DescribeTool", id |-> id, doc |-> <<>>,
                          err |-> requireToolError(id, hasDoc, found.resolverErr)]
             /\ UNCHANGED <<heap, hdocs, hreg, hret>>
        ELSE LET ex == IF hasDoc THEN copyExamplesOnHeap(heap, hdocs[id][1])
                       ELSE [h |-> heap, v |-> Nil]
                 er == IF hasDoc THEN copyStringsOnHeap(ex.h, hdocs[id][2])
                       ELSE [h |-> heap, v |-> Nil]
                 kept == SubSeq(<< <<ex.v, er.v>> >> \o hret, 1, Min(MaxKept, Len(hret) + 1))
                 gc == Collect(er.h, hdocs, kept)
             IN  /\ heap' = gc.heap
                 /\ hdocs' = gc.hdocs
                 /\ hret' = gc.hret
                 /\ hseen' = [op |-> "DescribeTool", id |-> id, err |-> NoError,
                              doc |-> Contents(er.h, <<ex.v, er.v>>)]
                 /\ UNCHANGED hreg

\* ListExamples(id, 0) as it acts on the heap: the examples copied under the
\* read lock, the resolver asked, the copies returned.  The caller reads the
\* result and lets go of it.
ListExamplesOwned(id, resolverOut) ==
    LET hasDoc == id \in DOMAIN hdocs
        found == lookupToolExists(index, toolResolver, Answer(<<>>, IndexErr), resolverOut)
        ex == copyExamplesOnHeap(heap, hdocs[id][1])
    IN  /\ hseen' = [op |-> "ListExamples", id |-> id,
                     err |-> IF found.resolverErr # <<>> THEN found.resolverErr
                             ELSE IF ~hasDoc /\ found.tool = <<>> THEN Errorf(ErrNotFound, id)
                             ELSE NoError,
                     doc |-> IF hasDoc /\ found.resolverErr = <<>>
                             THEN Contents(ex.h, <<ex.v>>) ELSE <<>>]
        /\ UNCHANGED <<heap, hdocs, hreg, hret>>

\* entry.ExternalRefs[0] = "mutated", after the registration
MutatePassedRefs == Write(CallerRefs.addr)

\* doc.Examples[0] = ToolExample{}
WriteExample(a) ==
    /\ heap[a].shape = "[]ToolExample"
    /\ Len(heap[a].items) > 0
    /\ heap[a].items[1] # Nil
    /\ heap' = [heap EXCEPT ![a].items[1] = Nil]
    /\ hseen' = [op |-> "write"]
    /\ UNCHANGED <<hdocs, hreg, hret>>

\* args := doc.Examples[0].Args; args["key"] = "mutated"; nested[0] = "mutated":
\* every cell the Args of the first example lead to is overwritten.
WriteArgs(ex) ==
    LET cells == {a \in Reach(heap, heap[ex.addr].items[1]) : Writable(heap[a])}
    IN  /\ Len(heap[ex.addr].items) > 0
        /\ heap' = [a \in DOMAIN heap |->
                        IF a \in cells THEN Overwritten(heap[a]) ELSE heap[a]]
        /\ heap' # heap
        /\ hseen' = [op |-> "write"]
        /\ UNCHANGED <<hdocs, hreg, hret>>

\* The caller writes into a ToolDoc it holds: into doc.Examples, into the
\* Args of its first example, or into doc.ExternalRefs.
MutateReturnedDoc ==
    \E i \in 1..Len(hret) :
        /\ IsRef(hret[i][1])
        /\ \/ WriteExample(hret[i][1].addr)
           \/ WriteArgs(hret[i][1])
           \/ Write(hret[i][2].addr)

NextOwned ==
    \/ \E args \in CallerArgs : RegisterDocOwned(TextId, args, CallerRefs) /\ UNCHANGED <<storeVars, concVars>>
    \/ \E out \in OwnedResolverOutcomes : DescribeToolOwned(TextId, out) /\ UNCHANGED <<storeVars, concVars>>
    \/ \E out \in OwnedResolverOutcomes : ListExamplesOwned(TextId, out) /\ UNCHANGED <<storeVars, concVars>>
    \/ MutatePassedRefs /\ UNCHANGED <<storeVars, concVars>>
    \/ MutateReturnedDoc /\ UNCHANGED <<storeVars, concVars>>

SpecOwned == InitOwned /\ [][NextOwned]_vars

----------------------------------------------------------------------------
(* Properties of snapshot ownership, checked under SpecOwned *)

DescribedRecord ==
    hseen.op = "DescribeTool" /\ hseen.err = NoError /\ hseen.id \in DOMAIN hdocs

ListedRecord ==
    hseen.op = "ListExamples" /\ hseen.err = NoError /\ hseen.id \in DOMAIN hdocs

\* The Args registered under id are all of types deepCopyValue recognises.
RecognisedRecord(id) ==
    \A i \in 1..Len(hreg[id][1].items) : Recognised(hreg[id][1].items[i])

\* The stored record of id holds what was registered, whatever the caller
\* wrote since; a result for id holds what was registered; a ToolDoc just
\* returned shares no cell with the record or with what the caller passed in.
OwnedAt(id) ==
    /\ Contents(heap, hdocs[id]) = hreg[id]
    /\ (DescribedRecord /\ hseen.id = id) =>
          /\ hseen.doc = hreg[id]
          /\ ReachAll(heap, hret[1]) \cap
                (ReachAll(heap, hdocs[id]) \cup Reach(heap, CallerRefs)
                    \cup UNION {Reach(heap, r) : r \in CallerArgs}) = {}
    /\ (ListedRecord /\ hseen.id = id) => hseen.doc = <<hreg[id][1]>>

\* A step that is a registration leaves the ToolDocs returned before as they are.
KeptUntouched ==
    hseen'.op = "RegisterDoc" =>
        [i \in 1..Len(hret') |-> Contents(heap', hret'[i])]
            = [i \in 1..Len(hret) |-> Contents(heap, hret[i])]

\* C27 as claimed: a ToolDoc returned at the full level is a caller-owned
\* snapshot.  Writing into its Examples, their Args or its ExternalRefs, or
\* into the ExternalRefs slice passed to RegisterDoc, changes neither the
\* stored record nor a later result, and a later registration changes no
\* ToolDoc returned before.
C27_CallerOwnedSnapshot ==
    /\ [](\A id \in DOMAIN hdocs : OwnedAt(id))
    /\ [][KeptUntouched]_vars

\* C27 amended: the same, for records whose registered Args are made only of
\* values whose type deepCopyValue recognises.
C27_RecognisedSnapshot ==
    /\ [](\A id \in DOMAIN hdocs : RecognisedRecord(id) => OwnedAt(id))
    /\ [][KeptUntouched]_vars

\* ListExamples returns what was registered, although the caller has since
\* overwritten the ExternalRefs slice it had passed in and, in the ToolDoc it
\* holds, the first example and the first ref.
C27_Witness ==
    /\ ListedRecord
    /\ RecognisedRecord(hseen.id)
    /\ hseen.doc = <<hreg[hseen.id][1]>>
    /\ heap[CallerRefs.addr].items[1] = StrV("mutated")
    /\ Len(hret) = 1
    /\ IsRef(hret[1][1])
    /\ Contents(heap, hret[1])[1].items[1] = Nil
    /\ Contents(heap, hret[1])[2].items[1] = StrV("mutated")
    /\ hreg[hseen.id][2].items[1] = StrV("https://example.com")

----------------------------------------------------------------------------
(* The concurrent specification SpecConc: four goroutines call one store,  *)
(* which has an index and a resolver.  A call is the sequence of its       *)
(* statements that touch s.mu, s.docs, the index or the resolver; what     *)
(* lies between two of them is local to the goroutine and belongs to the   *)
(* step that follows.  sync.RWMutex: Lock first shuts out new readers and  *)
(* other writers, then waits for the readers inside to leave.              *)

MaxWrites == 2      \* registrations that reach the lock

Threads == {"w1", "w2", "r1", "r2"}

ConcExample(k) == TextExample(k, 1, 1, MapAny(<<KV("n", IntV(k))>>))

EntryA == DocEntry(Chars(1), Chars(2), <<ConcExample(1)>>, <<Chars(3)>>)
EntryB == DocEntry(Chars(4), Chars(5), <<ConcExample(2)>>, <<Chars(6)>>)
\* Args nested one map deeper than MaxArgsDepth allows.
EntryTooLarge ==
    DocEntry(Chars(4), Chars(9),
             <<TextExample(3, 4, 4, ArgsOf(MaxArgsDepth + 1, MaxArgsDepth + 1))>>, <<>>)
BatchX == <<ConcExample(3)>>

\* The calls each goroutine makes, all on the one id.
Calls(t) ==
    CASE t = "w1" -> {[op |-> "RegisterDoc", arg |-> e] : e \in {EntryA, EntryTooLarge}}
      [] t = "w2" -> {[op |-> "RegisterDoc", arg |-> EntryB],
                      [op |-> "RegisterExamples", arg |-> BatchX]}
      [] t = "r1" -> {[op |-> "DescribeTool", arg |-> l] : l \in {DetailFull, "invalid"}}
      [] t = "r2" -> {[op |-> "ListExamples", arg |-> 0]}

ConcIndexOutcomes == {Answer(<<OwnedTool>>, <<>>), Answer(<<>>, IndexErr)}
ConcResolverOutcomes == {Answer(<<OwnedTool>>, <<>>), Answer(<<>>, <<>>)}

\* "var summary, notes string; var examples []ToolExample; ... var hasDoc bool"
NoSnap == snapshotRecord(EmptyDocs, TextId)
NoOut == [err |-> NoError, doc |-> ZeroToolDoc, examples |-> <<>>]

IdleThread ==
    [op |-> "none", arg |-> <<>>, pc |-> "idle", held |-> "none",
     snap |-> NoSnap, out |-> NoOut, start |-> 0]

\* Mutant: DescribeTool and ListExamples release the read lock by defer.
Flow_DefersRUnlock(op) ==
    CASE op = "RegisterDoc" ->
            <<"prepare", "Lock", "LockWait", "create", "summary", "notes", "examples",
              "externalRefs", "Unlock", "done">>
      [] op = "RegisterExamples" ->
            <<"prepare", "Lock", "LockWait", "create", "examples", "Unlock", "done">>
      [] op = "DescribeTool" ->
            <<"level", "RLock", "snapshot", "index", "resolver", "RUnlock", "done">>
      [] op = "ListExamples" ->
            <<"RLock", "snapshot", "index", "resolver", "RUnlock", "done">>

\* Mutant: RegisterExamples returns without releasing the lock.
Flow_ExamplesKeepLock(op) ==
    CASE op = "RegisterDoc" ->
            <<"prepare", "Lock", "LockWait", "create", "summary", "notes", "examples",
              "externalRefs", "Unlock", "done">>
      [] op = "RegisterExamples" ->
            <<"prepare", "Lock", "LockWait", "create", "examples", "done">>
      [] op = "DescribeTool" ->
            <<"level", "RLock", "snapshot", "RUnlock", "index", "resolver", "done">>
      [] op = "ListExamples" ->
            <<"RLock", "snapshot", "RUnlock", "index", "resolver", "done">>

\* Mutant: RegisterDoc releases the lock before it assigns the examples.
Flow_UnlocksBeforeExamples(op) ==
    CASE op = "RegisterDoc" ->
            <<"prepare", "Lock", "LockWait", "create", "summary", "notes", "Unlock",
              "examples", "externalRefs", "done">>
      [] op = "RegisterExamples" ->
            <<"prepare", "Lock", "LockWait", "create", "examples", "Unlock", "done">>
      [] op = "DescribeTool" ->
            <<"level", "RLock", "snapshot", "RUnlock", "index", "resolver", "done">>
      [] op = "ListExamples" ->
            <<"RLock", "snapshot", "RUnlock", "index", "resolver", "done">>

\* The statements of each method, in the order a call runs them.
Flow(op) ==
    CASE op = "RegisterDoc" ->
            <<"prepare", "Lock", "LockWait", "create", "summary", "notes", "examples",
              "externalRefs", "Unlock", "done">>
      [] op = "RegisterExamples" ->
            <<"prepare", "Lock", "LockWait", "create", "examples", "Unlock", "done">>
      [] op = "DescribeTool" ->
            <<"level", "RLock", "snapshot", "RUnlock", "index", "resolver", "done">>
      [] op = "ListExamples" ->
            <<"RLock", "snapshot", "RUnlock", "index", "resolver", "done">>

NextPc(op, pc) ==
    LET f == Flow(op)
    IN  f[1 + CHOOSE k \in 1..Len(f) : f[k] = pc]

\* The store a sequential caller is left with by one registration.
Applied(d, c) ==
    IF c.op = "RegisterDoc" THEN RegisterDocResult(d, TextId, c.arg)
    ELSE RegisterExamplesResult(d, TextId, c.arg)

\* The registrations the goroutines make, and those that pass the caps.
Registering ==
    {c \in UNION {Calls(t) : t \in Threads} : c.op \in {"RegisterDoc", "RegisterExamples"}}
Accepted == {c \in Registering : Applied(EmptyDocs, c).err = NoError}

\* The values a registration is about to assign, made before it takes the
\* lock (or the error it returns), worked out once for each call.
PreparedAll == {<<c, Applied(EmptyDocs, c)>> : c \in Registering}
Prepared(op, arg) == (CHOOSE p \in PreparedAll : p[1] = [op |-> op, arg |-> arg])[2]

\* What a sequential store holds after the registrations h, in their order;
\* worked out once for each order the log can take.
RECURSIVE SequentialDocs(_)
SequentialDocs(h) ==
    IF h = <<>> THEN EmptyDocs
    ELSE Applied(SequentialDocs(SubSeq(h, 1, Len(h) - 1)), h[Len(h)]).docs

SequentialAll ==
    {<<h, SequentialDocs(h)>> : h \in UNION {[1..n -> Accepted] : n \in 0..MaxWrites}}

\* One statement of the locked section:
\*   "record, exists := s.docs[id]; if !exists { ... s.docs[id] = record }"
\*   "record.summary = entry.Summary", ..., "record.externalRefs = externalRefs"
Written(d, id, field, rec) ==
    CASE field = "create" ->
            IF id \in DOMAIN d THEN d ELSE Put(d, id, docRecord(<<>>, <<>>, <<>>, <<>>))
      [] field = "summary" -> [d EXCEPT ![id].summary = rec.summary]
      [] field = "notes" -> [d EXCEPT ![id].notes = rec.notes]
      [] field = "examples" -> [d EXCEPT ![id].examples = rec.examples]
      [] field = "externalRefs" -> [d EXCEPT ![id].externalRefs = rec.externalRefs]

WritePcs == {"create", "summary", "notes", "examples", "externalRefs"}

\* What the sequential store holds after the first k registrations logged.
LogDocs(k) == (CHOOSE p \in SequentialAll : p[1] = [i \in 1..k |-> log[i].call])[2]
LastLogged == LogDocs(Len(log))

\* The registrations that have taken the lock and released it.
Released ==
    Len(log) - Cardinality({u \in DOMAIN threads : threads[u].held = "exclusive"})

\* Mutant: a second writer is let in while the first holds the lock.
CanLock_IgnoresWriter(m) == TRUE

\* sync.RWMutex: one writer at a time gets past the first half of Lock.
CanLock(m) == ~m.w

\* sync.RWMutex: the writer that shut the door enters once no reader is inside.
ReadersGone(m) == m.readers = 0

\* Mutant: RLock is granted although a writer has shut the door.
CanRLock_IgnoresWriter(m) == TRUE

\* sync.RWMutex: a reader enters unless a writer holds or awaits the lock.
CanRLock(m) == ~m.w

InitConc ==
    /\ index = TRUE
    /\ toolResolver = TRUE
    /\ maxExamples = 0
    /\ docs = EmptyDocs
    /\ call = NoCall
    /\ ret = NoRet
    /\ InitHeapIdle
    /\ mu = [w |-> FALSE, readers |-> 0]
    /\ threads = [t \in Threads |-> IdleThread]
    /\ log = <<>>

\* A goroutine calls a method of the store.
Begin(t, c) ==
    /\ threads[t].pc = "idle"
    /\ c.op \in {"RegisterDoc", "RegisterExamples"} =>
          Len(log) + Cardinality({u \in DOMAIN threads :
                                     threads[u].pc \in {"prepare", "Lock", "LockWait"}})
              < MaxWrites
    /\ threads' = [threads EXCEPT ![t] =
                      [IdleThread EXCEPT !.op = c.op, !.arg = c.arg,
                                         !.pc = Flow(c.op)[1], !.start = Released]]
    /\ UNCHANGED <<docs, mu, log>>

\* RegisterDoc up to "s.mu.Lock()", RegisterExamples likewise: the values to
\* assign are made, or the call returns ErrArgsTooLarge.
Prepare(t) ==
    LET th == threads[t]
        r == Prepared(th.op, th.arg)
    IN  /\ th.pc = "prepare"
        /\ threads' = [threads EXCEPT ![t] =
                          IF r.err # NoError
                          THEN [th EXCEPT !.pc = "done", !.out = [NoOut EXCEPT !.err = r.err]]
                          ELSE [th EXCEPT !.pc = NextPc(th.op, "prepare")]]
        /\ UNCHANGED <<docs, mu, log>>

\* "s.mu.Lock()", first half: new readers and other writers are shut out.
Lock(t) ==
    /\ threads[t].pc = "Lock"
    /\ CanLock(mu)
    /\ mu' = [mu EXCEPT !.w = TRUE]
    /\ threads' = [threads EXCEPT ![t].pc = NextPc(threads[t].op, "Lock")]
    /\ UNCHANGED <<docs, log>>

\* "s.mu.Lock()", second half: the lock is taken.  The registration is logged,
\* with the number of registrations that had released the lock when it began.
LockGranted(t) ==
    LET th == threads[t]
    IN  /\ th.pc = "LockWait"
        /\ ReadersGone(mu)
        /\ threads' = [threads EXCEPT ![t].pc = NextPc(th.op, "LockWait"),
                                      ![t].held = "exclusive"]
        /\ log' = Append(log, [call |-> [op |-> th.op, arg |-> th.arg], began |-> th.start])
        /\ UNCHANGED <<docs, mu>>

\* One assignment of the locked section.
WriteRecord(t) ==
    LET th == threads[t]
    IN  /\ th.pc \in WritePcs
        /\ docs' = Written(docs, TextId, th.pc, Prepared(th.op, th.arg).docs[TextId])
        /\ threads' = [threads EXCEPT ![t].pc = NextPc(th.op, th.pc)]
        /\ UNCHANGED <<mu, log>>

\* "defer s.mu.Unlock()", run at "return nil"
Unlock(t) ==
    /\ threads[t].pc = "Unlock"
    /\ mu' = [mu EXCEPT !.w = FALSE]
    /\ threads' = [threads EXCEPT ![t].pc = NextPc(threads[t].op, "Unlock"),
                                  ![t].held = "none"]
    /\ UNCHANGED <<docs, log>>

\* "switch level { ... default: return ToolDoc{}, ErrInvalidDetail }"
CheckLevel(t) ==
    LET th == threads[t]
    IN  /\ th.pc = "level"
        /\ threads' = [threads EXCEPT ![t] =
                          IF validLevel(th.arg)
                          THEN [th EXCEPT !.pc = NextPc(th.op, "level")]
                          ELSE [th EXCEPT !.pc = "done",
                                          !.out = [NoOut EXCEPT
                                                      !.err = Errorf(ErrInvalidDetail, th.arg)]]]
        /\ UNCHANGED <<docs, mu, log>>

\* "s.mu.RLock()"
RLock(t) ==
    /\ threads[t].pc = "RLock"
    /\ CanRLock(mu)
    /\ mu' = [mu EXCEPT !.readers = @ + 1]
    /\ threads' = [threads EXCEPT ![t].pc = NextPc(threads[t].op, "RLock"),
                                  ![t].held = "shared"]
    /\ UNCHANGED <<docs, log>>

\* "if docRec := s.docs[id]; docRec != nil { ... }": DescribeTool copies the
\* four fields, ListExamples the examples.
Snapshot(t) ==
    LET th == threads[t]
        all == snapshotRecord(docs, TextId)
    IN  /\ th.pc = "snapshot"
        /\ threads' = [threads EXCEPT ![t].pc = NextPc(th.op, "snapshot"),
                                      ![t].snap =
                                          IF th.op = "DescribeTool" THEN all
                                          ELSE [NoSnap EXCEPT !.hasDoc = all.hasDoc,
                                                              !.examples = all.examples]]
        /\ UNCHANGED <<docs, mu, log>>

\* "s.mu.RUnlock()"
RUnlock(t) ==
    /\ threads[t].pc = "RUnlock"
    /\ mu' = [mu EXCEPT !.readers = @ - 1]
    /\ threads' = [threads EXCEPT ![t].pc = NextPc(threads[t].op, "RUnlock"),
                                  ![t].held = "none", ![t].start = 0]
    /\ UNCHANGED <<docs, log>>

\* Mutant: the result is built from the record as it is when the lookup ends.
Outcome_RereadsRecord(th, indexOut, resolverOut) ==
    IF th.op = "DescribeTool"
    THEN LET r == describeFrom(TextId, th.arg, snapshotRecord(docs, TextId), maxExamples,
                               lookupTool(index, toolResolver, indexOut, resolverOut))
         IN  [NoOut EXCEPT !.err = r.err, !.doc = r.doc]
    ELSE LET r == listFrom(TextId, th.arg, snapshotRecord(docs, TextId), maxExamples,
                           lookupToolExists(index, toolResolver, indexOut, resolverOut))
         IN  [NoOut EXCEPT !.err = r.err, !.examples = r.examples]

\* What the call returns once the lookup has ended.
Outcome(th, indexOut, resolverOut) ==
    IF th.op = "DescribeTool"
    THEN LET r == describeFrom(TextId, th.arg, th.snap, maxExamples,
                               lookupTool(index, toolResolver, indexOut, resolverOut))
         IN  [NoOut EXCEPT !.err = r.err, !.doc = r.doc]
    ELSE LET r == listFrom(TextId, th.arg, th.snap, maxExamples,
                           lookupToolExists(index, toolResolver, indexOut, resolverOut))
         IN  [NoOut EXCEPT !.err = r.err, !.examples = r.examples]

\* "s.index.GetTool(id)" returns: with the tool the resolver is not asked.
IndexReturns(t, indexOut) ==
    LET th == threads[t]
    IN  /\ th.pc = "index"
        /\ threads' = [threads EXCEPT ![t] =
                          IF indexOut.err = <<>>
                          THEN [th EXCEPT !.pc = NextPc(th.op, "resolver"),
                                          !.out = Outcome(th, indexOut, Answer(<<>>, <<>>))]
                          ELSE [th EXCEPT !.pc = NextPc(th.op, "index")]]
        /\ UNCHANGED <<docs, mu, log>>

\* "s.toolResolver(id)" returns.
ResolverReturns(t, resolverOut) ==
    LET th == threads[t]
    IN  /\ th.pc = "resolver"
        /\ threads' = [threads EXCEPT ![t] =
                          [th EXCEPT !.pc = NextPc(th.op, "resolver"),
                                     !.out = Outcome(th, Answer(<<>>, IndexErr), resolverOut)]]
        /\ UNCHANGED <<docs, mu, log>>

\* The call returns to its caller.
Returns(t) ==
    /\ threads[t].pc = "done"
    /\ threads' = [threads EXCEPT ![t] = IdleThread]
    /\ UNCHANGED <<docs, mu, log>>

Step(t) ==
    \/ \E c \in Calls(t) : Begin(t, c)
    \/ Prepare(t)
    \/ Lock(t)
    \/ LockGranted(t)
    \/ WriteRecord(t)
    \/ Unlock(t)
    \/ CheckLevel(t)
    \/ RLock(t)
    \/ Snapshot(t)
    \/ RUnlock(t)
    \/ \E indexOut \in ConcIndexOutcomes : IndexReturns(t, indexOut)
    \/ \E resolverOut \in ConcResolverOutcomes : ResolverReturns(t, resolverOut)
    \/ Returns(t)

NextConc ==
    /\ \E t \in DOMAIN threads : Step(t)
    /\ UNCHANGED <<index, toolResolver, maxExamples, call, ret, heapVars>>

SpecConc == InitConc /\ [][NextConc]_vars

\* A goroutine that can take a step of the store, or can be given the lock,
\* is not held back for ever.  A goroutine may stay idle for ever, and the
\* index and the resolver may never return.
StoreStep(t) ==
    /\ t \in DOMAIN threads
    /\ \/ Prepare(t)
       \/ WriteRecord(t)
       \/ Unlock(t)
       \/ CheckLevel(t)
       \/ Snapshot(t)
       \/ RUnlock(t)
       \/ Returns(t)
    /\ UNCHANGED <<index, toolResolver, maxExamples, call, ret, heapVars>>

Acquire(t) ==
    /\ t \in DOMAIN threads
    /\ Lock(t) \/ LockGranted(t) \/ RLock(t)
    /\ UNCHANGED <<index, toolResolver, maxExamples, call, ret, heapVars>>

FairScheduling == \A t \in Threads : WF_vars(StoreStep(t)) /\ WF_vars(Acquire(t))

\* The goroutines of the fair specification: two writers and a reader.
FairThreads == {"w1", "w2", "r1"}

InitConcFair ==
    /\ index = TRUE
    /\ toolResolver = TRUE
    /\ maxExamples = 0
    /\ docs = EmptyDocs
    /\ call = NoCall
    /\ ret = NoRet
    /\ InitHeapIdle
    /\ mu = [w |-> FALSE, readers |-> 0]
    /\ threads = [t \in FairThreads |-> IdleThread]
    /\ log = <<>>

SpecConcFair == InitConcFair /\ [][NextConc]_vars /\ FairScheduling

----------------------------------------------------------------------------
(* Properties of concurrent calls, checked under SpecConc and SpecConcFair *)

Registrations == {"RegisterDoc", "RegisterExamples"}
Reads == {"DescribeTool", "ListExamples"}
InResolution(t) == t \in DOMAIN threads /\ threads[t].pc \in {"index", "resolver"}
InReadSection(t) == threads[t].pc \in {"snapshot", "RUnlock"}

\* snap is what a call of op copies from the record d holds.
Observes(snap, d, op) ==
    LET all == snapshotRecord(d, TextId)
    IN  IF op = "DescribeTool" THEN snap = all
        ELSE snap.hasDoc = all.hasDoc /\ snap.examples = all.examples

\* C22: a goroutine inside the index or resolver call holds the lock neither
\* shared nor exclusive, and the mutex counts no reader unless a goroutine is
\* in the read section: with every reader in resolution a waiting
\* registration can take the lock.
C22_NoLockDuringResolution ==
    /\ \A t \in Threads : InResolution(t) => threads[t].held = "none"
    /\ (\A t \in Threads : ~InReadSection(t)) => ReadersGone(mu)

\* Both readers are inside the lookup, where they were before the writer took
\* the lock; the writer has assigned every field and still holds the lock.
C22_Witness ==
    /\ InResolution("r1")
    /\ InResolution("r2")
    /\ \E t \in Threads :
          /\ threads[t].pc = "Unlock"
          /\ threads[t].held = "exclusive"
    /\ docs = LastLogged

\* C23: a read that began after k registrations had released the lock copies
\* the record as the k-th registration left it, or as a later one did.
C23_Visibility ==
    \A t \in Threads :
        threads[t].pc = "RUnlock" =>
            \E k \in threads[t].start..Len(log) :
                Observes(threads[t].snap, LogDocs(k), threads[t].op)

\* DescribeTool began after both registrations had released the lock and has
\* copied the record of the second, which is not that of the first.
C23_Witness ==
    /\ threads["r1"].pc = "RUnlock"
    /\ threads["r1"].start = 2
    /\ Observes(threads["r1"].snap, LogDocs(2), "DescribeTool")
    /\ ~Observes(threads["r1"].snap, LogDocs(1), "DescribeTool")

\* C24: once every registration has returned, the record is the one the
\* sequential store holds after the same registrations, taken in the order in
\* which they took the lock.
C24_LastCommittedWins ==
    (\A t \in Threads : threads[t].op \notin Registrations) => docs = LastLogged

\* Two registrations that overlapped (the second to take the lock began before
\* the first had released it) have returned: the summary is RegisterDoc's, the
\* examples are RegisterExamples'.
C24_Witness ==
    /\ \A t \in Threads : threads[t].op \notin Registrations
    /\ Len(log) = 2
    /\ log[2].began = 0
    /\ docs = LastLogged
    /\ docs[TextId].summary = EntryA.Summary
    /\ docs[TextId].examples = Prepared("RegisterExamples", BatchX).docs[TextId].examples

\* C25: what a read has copied, and the record-derived fields of what it
\* returns, are those of the record as one released registration left it (or
\* of no record, before the first); and no goroutine is about to read the
\* record while another is about to write it.
C25_NoTornReads ==
    /\ \A t \in Threads :
          threads[t].op \in Reads =>
              \E k \in 0..Released :
                  LET all == snapshotRecord(LogDocs(k), TextId)
                      th == threads[t]
                  IN  /\ Observes(th.snap, LogDocs(k), th.op)
                      /\ (th.pc = "done" /\ th.out.err = NoError) =>
                            IF th.op = "ListExamples" THEN th.out.examples = all.examples
                            ELSE /\ th.out.doc.Notes = all.notes
                                 /\ th.out.doc.Examples = all.examples
                                 /\ th.out.doc.ExternalRefs = all.externalRefs
                                 /\ all.summary # <<>> => th.out.doc.Summary = all.summary
    /\ ~\E r \in Threads, w \in Threads :
          threads[r].pc = "snapshot" /\ threads[w].pc \in WritePcs

\* DescribeTool returns the record of the first registration whole, while the
\* second registration has assigned its summary and not yet its examples, and
\* ListExamples waits for the lock.
C25_Witness ==
    /\ threads["r1"].pc = "done"
    /\ threads["r1"].out.err = NoError
    /\ threads["r1"].out.doc.Notes = EntryA.Notes
    /\ threads["r1"].out.doc.ExternalRefs = EntryA.ExternalRefs
    /\ threads["r2"].pc = "RLock"
    /\ threads["w2"].pc = "examples"
    /\ Len(log) = 2
    /\ docs[TextId].summary = EntryB.Summary
    /\ docs[TextId].examples = LogDocs(1)[TextId].examples

Busy(t) == t \in DOMAIN threads /\ threads[t].pc # "idle"

\* C26: a call that has returned holds no lock; under fair scheduling a
\* registration returns whatever the index and the resolver do, and a read
\* returns unless it stays inside the index or resolver call for ever.
C26_NoOperationBlocks ==
    /\ [](\A t \in DOMAIN threads :
             threads[t].pc \in {"idle", "done"} => threads[t].held = "none")
    /\ \A t \in {"w1", "w2"} : Busy(t) ~> ~Busy(t)
    /\ \A t \in {"r1", "r2"} : (<>[]InResolution(t)) \/ (Busy(t) ~> ~Busy(t))

\* Both registrations have returned, one with ErrArgsTooLarge and one having
\* written, and the lock is free, while the reader is still inside the index
\* or resolver call.
C26_Witness ==
    /\ InResolution("r1")
    /\ threads["w1"].pc = "done"
    /\ ErrorsIs(threads["w1"].out.err, ErrArgsTooLarge)
    /\ threads["w2"].pc = "done"
    /\ threads["w2"].out.err = NoError
    /\ mu = [w |-> FALSE, readers |-> 0]
    /\ Len(log) >= 1

----------------------------------------------------------------------------
(* Further properties of lookup and listing, checked under Spec *)

\* C31: ListExamples gives an empty list and a nil error, for every max, when
\* the id has no stored examples but exists: the tool resolves and there is no
\* record, or there is a record whose examples are empty.
C31_EmptyListWhenNoExamples ==
    (IsList /\ StoredCount(call.id) = 0 /\ (HasRecord(call.id) \/ LookupFoundTool))
        => (ret.err = NoError /\ ret.examples = <<>>)

----------------------------------------------------------------------------
(* The validator specification SpecArgs: ValidateArgs called on its own, on *)
(* Args nested through maps and slices up to one level beyond the depth cap *)
(* and filled up to one key beyond the size cap.                           *)

Wrappers == {"map", "slice"}

\* The ways of nesting up to n containers inside one another.
Chains(n) == UNION {[1..k -> Wrappers] : k \in 0..n}

\* leaf wrapped in the containers of ws, the outermost first.
RECURSIVE Nest(_, _)
Nest(ws, leaf) ==
    IF ws = <<>> THEN leaf
    ELSE IF Head(ws) = "map" THEN MapAny(<<KV("in", Nest(Tail(ws), leaf))>>)
    ELSE SliceAny(<<Nest(Tail(ws), leaf)>>)

Leaves ==
    {StrV("leaf"), Nil, MapAny(<<>>), SliceAny(<<>>),
     Typed("[]string", <<StrV("t")>>), Pointer(0)}

FillerCounts == {0} \cup (MaxArgsKeys - MaxArgsDepth - 2)..MaxArgsKeys

\* {"items": []any{{"id": 1}, {"id": 2}}} and {"items": make([]any, MaxArgsKeys+1)}
ArgsItems == MapAny(<<KV("items", SliceAny(<<MapAny(<<KV("id", IntV(1))>>),
                                             MapAny(<<KV("id", IntV(2))>>)>>))>>)
ArgsLargeSlice == MapAny(<<KV("items", SliceAny([i \in 1..(MaxArgsKeys + 1) |-> IntV(i)]))>>)

ValidateInputs ==
    {Nil, ArgsItems, ArgsLargeSlice}
    \cup {MapAny(<<KV("a", Nest(ws, leaf))>> \o Fillers(n)) :
             ws \in Chains(MaxArgsDepth), leaf \in Leaves, n \in FillerCounts}
    \cup {MapAny(<<KV("a", Nest(ws1, StrV("x"))), KV("b", Nest(ws2, IntV(1)))>>) :
             ws1 \in Chains(MaxArgsDepth - 2), ws2 \in Chains(MaxArgsDepth - 2)}

InitArgs ==
    /\ index = FALSE
    /\ toolResolver = FALSE
    /\ maxExamples = 0
    /\ docs = EmptyDocs
    /\ call = NoCall
    /\ ret = NoRet
    /\ InitHeapIdle
    /\ InitOneCaller

\* stats, valid := ValidateArgs(args); "args" in ret is the argument as the
\* caller finds it after the call (the three functions assign to locals only).
ValidateArgsCall(args) ==
    LET r == ValidateArgs(args)
    IN  /\ call.op = "none"
        /\ call' = [op |-> "ValidateArgs", args |-> args]
        /\ ret' = [err |-> NoError, stats |-> [Depth |-> r.Depth, Keys |-> r.Keys],
                   valid |-> r.valid, args |-> args]
        /\ UNCHANGED <<index, toolResolver, maxExamples, docs, heapVars, concVars>>

NextArgs ==
    \/ \E args \in ValidateInputs : ValidateArgsCall(args)
    \/ Return

SpecArgs == InitArgs /\ [][NextArgs]_vars

----------------------------------------------------------------------------
(* Properties of ValidateArgs, checked under SpecArgs *)

IsValidate == call.op = "ValidateArgs"

----------------------------------------------------------------------------
(* The shape specification SpecShapes: a store with a resolver, one id, and *)
(* examples whose Args hold containers of every type deepCopyValue lists,  *)
(* of types it does not list, and a pointer.  The caller remembers in      *)
(* hseen the call it made before the current one.                          *)

\* Slices of a type deepCopyValue has no case for.
UnlistedSliceShapes == {"[]int64", "[]map[string]any"}

ElementOf(shape) ==
    CASE shape \in {"[]string", "map[string]string"} -> StrV("a")
      [] shape \in {"[]int", "map[string]int"} -> IntV(1)
      [] shape \in {"[]float64", "map[string]float64"} -> [shape |-> "float64", val |-> 1]
      [] OTHER -> BoolV(TRUE)

SecondOf(shape) ==
    CASE shape \in {"[]string", "map[string]string"} -> StrV("b")
      [] shape \in {"[]int", "map[string]int"} -> IntV(2)
      [] shape \in {"[]float64", "map[string]float64"} -> [shape |-> "float64", val |-> 2]
      [] OTHER -> BoolV(FALSE)

TypedSliceOf(shape) == Typed(shape, <<ElementOf(shape), SecondOf(shape)>>)
TypedMapOf(shape) == Typed(shape, <<KV("key", ElementOf(shape)), KV("other", SecondOf(shape))>>)

\* {"string_slice": []string{...}, "int_slice": []int{...}, "string_map": map[string]string{...}}
ArgsTypedMix ==
    MapAny(<<KV("string_slice", TypedSliceOf("[]string")),
             KV("int_slice", TypedSliceOf("[]int")),
             KV("string_map", TypedMapOf("map[string]string"))>>)

\* Typed containers below a []any and a nested map[string]any.
ArgsTypedNested ==
    MapAny(<<KV("outer", SliceAny(<<TypedSliceOf("[]float64"),
                                    MapAny(<<KV("flags", TypedMapOf("map[string]bool")),
                                             KV("n", IntV(7))>>)>>))>>)

\* {"ids": []int64{1, 2}}
ArgsInt64s == MapAny(<<KV("ids", Typed("[]int64", <<IntV(1), IntV(2)>>))>>)

\* {"rows": []map[string]any{{"tags": []string{"a", "b"}}}}
ArgsRows ==
    MapAny(<<KV("rows", Typed("[]map[string]any",
                              <<MapAny(<<KV("tags", TypedSliceOf("[]string"))>>)>>))>>)

ShapeArgs ==
    {Nil, MapAny(<<>>), ArgsTypedMix, ArgsTypedNested, ArgsInt64s, ArgsRows, ArgsPointer}
    \cup {MapAny(<<KV("v", TypedSliceOf(s))>>) : s \in TypedSliceShapes}
    \cup {MapAny(<<KV("v", TypedMapOf(s))>>) : s \in TypedMapShapes}

ShapeExample(args) == ToolExample(<<>>, <<83>>, Chars(3), args, Chars(2))

ShapeBatches ==
    {<<ShapeExample(a)>> : a \in ShapeArgs}
    \cup {<<ShapeExample(ArgsTypedMix), ShapeExample(a)>> : a \in {ArgsTypedNested, ArgsRows}}

\* NewInMemoryStore(StoreOptions{ToolResolver: ...})
InitShapes ==
    /\ index = FALSE
    /\ toolResolver = TRUE
    /\ maxExamples = 0
    /\ docs = EmptyDocs
    /\ call = NoCall
    /\ ret = NoRet
    /\ heap = <<>>
    /\ hdocs = <<>>
    /\ hreg = <<>>
    /\ hret = <<>>
    /\ hseen = NothingSeen
    /\ InitOneCaller

NextShapes ==
    \/ \E b \in ShapeBatches : RegisterDoc(TextId, DocEntry(Chars(4), <<>>, b, <<>>))
    \/ \E b \in ShapeBatches : RegisterExamples(TextId, b)
    \/ \E ro \in {Answer(<<Tool("bare", <<>>, Nil)>>, <<>>), Answer(<<>>, <<>>)} :
          DescribeTool(TextId, DetailFull, Answer(<<>>, IndexErr), ro)
    \/ ListExamples(TextId, 0, Answer(<<>>, IndexErr), Answer(<<>>, <<>>))
    \/ ReturnSeen

SpecShapes == InitShapes /\ [][NextShapes]_vars

----------------------------------------------------------------------------
(* Properties of normalisation, checked under SpecShapes *)

MappingShapes == {"map[string]any"} \cup TypedMapShapes
SequenceShapes == {"[]any"} \cup TypedSliceShapes \cup UnlistedSliceShapes

\* Every map and slice in v, of whatever type, is a map[string]any or a []any.
RECURSIVE AllCanonical(_)
AllCanonical(v) ==
    IF v.shape \in MappingShapes
    THEN v.shape = "map[string]any"
         /\ \A i \in 1..Len(v.items) : AllCanonical(v.items[i].v)
    ELSE IF v.shape \in SequenceShapes
    THEN v.shape = "[]any" /\ \A i \in 1..Len(v.items) : AllCanonical(v.items[i])
    ELSE TRUE

\* Every map and slice of v that is reached through map[string]any and []any
\* only is itself a map[string]any, a []any, or of a type deepCopyValue does
\* not list.
RECURSIVE ListedCanonical(_)
ListedCanonical(v) ==
    IF v.shape = "map[string]any" THEN \A i \in 1..Len(v.items) : ListedCanonical(v.items[i].v)
    ELSE IF v.shape = "[]any" THEN \A i \in 1..Len(v.items) : ListedCanonical(v.items[i])
    ELSE v.shape \notin TypedMapShapes \cup TypedSliceShapes

\* What v holds, the types of its maps and slices left aside: keys, order,
\* scalars and unclassified values.
RECURSIVE Skeleton(_)
Skeleton(v) ==
    IF v.shape \in MappingShapes
    THEN [kind |-> "mapping",
          items |-> [i \in 1..Len(v.items) |-> KV(v.items[i].k, Skeleton(v.items[i].v))]]
    ELSE IF v.shape \in SequenceShapes
    THEN [kind |-> "sequence", items |-> [i \in 1..Len(v.items) |-> Skeleton(v.items[i])]]
    ELSE [kind |-> "scalar", val |-> v]

\* The Args of xs hold what the Args of ys hold, example by example.
SameContents(xs, ys) ==
    /\ Len(xs) = Len(ys)
    /\ \A i \in 1..Len(xs) : Skeleton(xs[i].Args) = Skeleton(ys[i].Args)

JustRegistered ==
    hseen.call.op \in {"RegisterDoc", "RegisterExamples"} /\ hseen.ret.err = NoError

\* The examples handed to the registration before the current call.
RegisteredBefore ==
    IF hseen.call.op = "RegisterDoc" THEN hseen.call.entry.Examples ELSE hseen.call.examples

\* The examples the current call returned, if it is a successful read.
ReadExamples ==
    IF IsList /\ ret.err = NoError THEN <<ret.examples>>
    ELSE IF IsDescribe /\ ret.err = NoError THEN <<ret.doc.Examples>>
    ELSE <<>>

\* C33 as claimed: every container in stored Args, and in Args returned by
\* ListExamples and DescribeTool, is a map[string]any or a []any, and the Args
\* hold the keys, order and scalar values that were registered, unclassified
\* values included.
C33_AllContainersCanonical ==
    /\ (IsRegister /\ ret.err = NoError) =>
          /\ SameContents(docs[call.id].examples, Registered)
          /\ \A i \in 1..Len(docs[call.id].examples) :
                AllCanonical(docs[call.id].examples[i].Args)
    /\ (JustRegistered /\ ReadExamples # <<>>) =>
          /\ SameContents(ReadExamples[1], RegisteredBefore)
          /\ \A i \in 1..Len(ReadExamples[1]) : AllCanonical(ReadExamples[1][i].Args)

\* C33 amended: the same, the canonical shape being claimed of the maps and
\* slices reached through map[string]any and []any whose type deepCopyValue
\* lists; a slice of any other type is stored and returned with its type.
C33_ListedContainersCanonical ==
    /\ (IsRegister /\ ret.err = NoError) =>
          /\ SameContents(docs[call.id].examples, Registered)
          /\ \A i \in 1..Len(docs[call.id].examples) :
                ListedCanonical(docs[call.id].examples[i].Args)
    /\ (JustRegistered /\ ReadExamples # <<>>) =>
          /\ SameContents(ReadExamples[1], RegisteredBefore)
          /\ \A i \in 1..Len(ReadExamples[1]) : ListedCanonical(ReadExamples[1][i].Args)

\* DescribeTool at full returning, right after their registration, typed
\* slices and a typed map as []any and map[string]any with their contents.
C33_Witness ==
    /\ IsDescribe /\ ret.err = NoError /\ JustRegistered
    /\ RegisteredBefore[1].Args = ArgsTypedMix
    /\ Len(ret.doc.Examples) = 2
    /\ ret.doc.Examples[1].Args.items[1].v = SliceAny(<<StrV("a"), StrV("b")>>)
    /\ ret.doc.Examples[1].Args.items[3].v.shape = "map[string]any"
    /\ ret.doc.Examples[2].Args.items[1].v.shape = "[]map[string]any"

----------------------------------------------------------------------------
(* The schema specification SpecSchema: a store with an index, with or      *)
(* without a resolver, one id, an index that fails in two ways, and tools  *)
(* whose input schema is absent, cannot be decoded into a map, decodes     *)
(* into a map that yields nothing, or yields required names, types or      *)
(* defaults.                                                               *)

\* A schema that is not a map[string]any, with what encoding/json makes of it.
Encoded(shape, parsed) == [shape |-> shape, parsed |-> parsed]

RequiredOnly == MapAny(<<KV("required", Typed("[]string", <<StrV("query")>>))>>)
DefaultOnly ==
    MapAny(<<KV("properties", MapAny(<<KV("age", MapAny(<<KV("default", IntV(0))>>))>>))>>)
UnionType ==
    MapAny(<<KV("properties",
                MapAny(<<KV("v", MapAny(<<KV("type", SliceAny(<<StrV("string"), StrV("null")>>))>>))>>))>>)

\* Schemas from which required names, types or defaults can be read.
SchemasWithData ==
    {ObjectSchema, RequiredOnly, DefaultOnly, UnionType,
     Encoded("json.RawMessage", <<ObjectSchema>>),
     Encoded("[]byte", <<RequiredOnly>>),
     Encoded("struct", <<DefaultOnly>>)}

\* Schemas that cannot be decoded into a map: invalid JSON, a JSON array, a
\* string, a value json.Marshal refuses.
SchemasNotCoercible ==
    {Encoded("json.RawMessage", <<>>), Encoded("[]byte", <<>>),
     Encoded("string", <<>>), Encoded("chan", <<>>)}

\* Maps in which no field yields data.
SchemasWithoutData ==
    {MapAny(<<>>),
     MapAny(<<KV("type", StrV("object"))>>),
     MapAny(<<KV("required", SliceAny(<<>>))>>),
     MapAny(<<KV("required", SliceAny(<<IntV(1), BoolV(TRUE)>>))>>),
     MapAny(<<KV("required", StrV("query"))>>),
     MapAny(<<KV("properties", MapAny(<<>>))>>),
     MapAny(<<KV("properties", SliceAny(<<StrV("query")>>))>>),
     MapAny(<<KV("properties", MapAny(<<KV("query", StrV("string"))>>))>>),
     MapAny(<<KV("properties", MapAny(<<KV("query", MapAny(<<KV("title", StrV("Query"))>>))>>))>>),
     MapAny(<<KV("properties", MapAny(<<KV("query", MapAny(<<KV("type", IntV(3))>>))>>))>>),
     MapAny(<<KV("properties", MapAny(<<KV("query", MapAny(<<KV("type", SliceAny(<<IntV(3)>>))>>))>>))>>),
     Encoded("json.RawMessage", <<MapAny(<<>>)>>),
     Encoded("[]byte", <<MapAny(<<KV("type", StrV("object"))>>)>>)}

SchemaTools ==
    {Tool("search", Chars(10), s) :
        s \in {Nil} \cup SchemasWithData \cup SchemasNotCoercible \cup SchemasWithoutData}

SchemaOutcomes == {Answer(<<t>>, <<>>) : t \in SchemaTools}

\* Errors of s.index.GetTool: the id is unknown, the index cannot be reached.
IndexErrs == {IndexErr, Errorf("index: backend unavailable", <<>>)}
IndexFailures == {Answer(<<>>, e) : e \in IndexErrs}

ListLookups ==
    {Answer(<<>>, <<>>), Answer(<<Tool("bare", <<>>, Nil)>>, <<>>),
     Answer(<<>>, Errorf("resolver failure", <<>>))}

\* NewInMemoryStore(StoreOptions{Index: ...}), with or without a ToolResolver
InitSchema ==
    /\ index = TRUE
    /\ toolResolver \in BOOLEAN
    /\ maxExamples = 0
    /\ docs = EmptyDocs
    /\ call = NoCall
    /\ ret = NoRet
    /\ InitHeapIdle
    /\ InitOneCaller

NextSchema ==
    \/ \E b \in {<<>>, <<Example(1)>>} :
          RegisterDoc(TextId, DocEntry(Chars(4), Chars(9), b, <<Chars(7)>>))
    \/ RegisterExamples(TextId, <<Example(2)>>)
    \/ \E level \in {DetailSummary, DetailSchema, DetailFull},
          io \in SchemaOutcomes \cup IndexFailures,
          ro \in SchemaOutcomes \cup {Answer(<<>>, <<>>), Answer(<<>>, Errorf("resolver failure", <<>>))} :
          DescribeTool(TextId, level, io, ro)
    \/ \E io \in IndexFailures \cup {Answer(<<Tool("bare", <<>>, Nil)>>, <<>>)},
          ro \in ListLookups :
          ListExamples(TextId, 0, io, ro)
    \/ Return

SpecSchema == InitSchema /\ [][NextSchema]_vars

----------------------------------------------------------------------------
(* Properties of schema derivation, checked under SpecSchema *)

\* No field of a SchemaInfo holds anything.
AllEmpty(info) == info.Required = <<>> /\ info.Types = <<>> /\ info.Defaults = <<>>

\* C34: whenever the lookup finds the tool, DescribeTool at schema and at
\* full succeeds whatever the tool's input schema is; when the schema is
\* absent, cannot be decoded into a map or yields no data the result has no
\* SchemaInfo, and a SchemaInfo that is present is never empty in all fields.
C34_SchemaDerivationNeverFails ==
    (IsDescribe /\ call.level \in {DetailSchema, DetailFull} /\ LookupFoundTool) =>
        /\ ret.err = NoError
        /\ ret.doc.Tool = <<FoundTool>>
        /\ FoundTool.InputSchema \in {Nil} \cup SchemasNotCoercible \cup SchemasWithoutData
              => ret.doc.SchemaInfo = <<>>
        /\ FoundTool.InputSchema \in SchemasWithData => ret.doc.SchemaInfo # <<>>
        /\ ret.doc.SchemaInfo # <<>> => ~AllEmpty(ret.doc.SchemaInfo[1])

\* A record and a tool whose schema lists a property without type or default:
\* full succeeds without SchemaInfo, with the record's examples.
C34_Witness ==
    /\ IsDescribe /\ call.level = DetailFull /\ HasRecord(call.id)
    /\ call.asked.index # <<>> /\ call.asked.index[1].err # <<>>
    /\ LookupFoundTool
    /\ FoundTool.InputSchema \in SchemasWithoutData
    /\ FoundTool.InputSchema.shape = "map[string]any"
    /\ MapGet(FoundTool.InputSchema, "properties") # <<>>
    /\ ret.err = NoError /\ ret.doc.SchemaInfo = <<>>
    /\ Len(ret.doc.Examples) = 1

----------------------------------------------------------------------------
(* Properties of the record map as a whole, checked under Spec *)

\* C35: records are never removed.  A successful registration leaves a record
\* for its id, no step takes an id out of the map, and with a record
\* DescribeTool succeeds at summary and fails at schema and full with NoTool
\* or with the resolver's error only, never with NotFound.
C35_RecordsNeverRemoved ==
    /\ []((IsRegister /\ ret.err = NoError) => HasRecord(call.id))
    /\ [][DOMAIN docs \subseteq DOMAIN docs']_vars
    /\ []((IsDescribe /\ validLevel(call.level) /\ HasRecord(call.id)) =>
            /\ ~ErrorsIs(ret.err, ErrNotFound)
            /\ call.level = DetailSummary => ret.err = NoError
            /\ ret.err # NoError =>
                  \/ ErrorsIs(ret.err, ErrNoTool)
                  \/ (ResolverFailed /\ ret.err = call.asked.resolver[1].err))

\* Both ids have a record, and DescribeTool at full fails with the error
\* the resolver returned.
C35_Witness ==
    /\ DOMAIN docs = Ids
    /\ IsDescribe /\ call.level = DetailFull
    /\ ResolverFailed /\ ret.err = call.asked.resolver[1].err

\* C36: DescribeTool and ListExamples leave the id -> record map as it is,
\* whatever they return, and so create no record for the id asked; a
\* registration for one id, successful or failed, leaves the record of every
\* other id as it is.
C36_ReadsAndForeignRegistrationsFrame ==
    /\ [][(call.op = "none" /\ call'.op \in {"DescribeTool", "ListExamples"})
             => docs' = docs]_vars
    /\ [][(call.op = "none" /\ call'.op \in {"RegisterDoc", "RegisterExamples"})
             => \A id \in Ids \ {call'.id} :
                   /\ id \in DOMAIN docs' <=> id \in DOMAIN docs
                   /\ id \in DOMAIN docs => docs'[id] = docs[id]]_vars

\* A successful registration for the empty id beside a record of the other
\* id that holds examples and a summary.
C36_Witness ==
    /\ IsRegister /\ call.id = "" /\ ret.err = NoError
    /\ Len(Registered) > 0
    /\ DOMAIN docs = Ids
    /\ docs["docs:only"].summary # <<>>
    /\ Len(docs["docs:only"].examples) > 0
    /\ docs["docs:only"] # docs[""]

\* A record as RegisterExamples creates it: no summary, no notes, no refs.
ExamplesOnlyRecord(id) ==
    /\ HasRecord(id)
    /\ docs[id].summary = <<>> /\ docs[id].notes = <<>> /\ docs[id].externalRefs = <<>>

\* C37: a successful RegisterExamples for an id without a record creates a
\* record with an empty summary, empty notes and no refs, holding the
\* examples; for such a record and a lookup that finds no tool, DescribeTool
\* succeeds at summary with an empty summary and fails at schema and full with
\* NoTool, not NotFound.
C37_ExamplesCreateRecord ==
    /\ [][(call.op = "none" /\ call'.op = "RegisterExamples" /\ ret'.err = NoError
           /\ call'.id \notin DOMAIN docs)
             => /\ call'.id \in DOMAIN docs'
                /\ docs'[call'.id].summary = <<>>
                /\ docs'[call'.id].notes = <<>>
                /\ docs'[call'.id].externalRefs = <<>>
                /\ Len(docs'[call'.id].examples) = Len(call'.examples)]_vars
    /\ []((IsDescribe /\ validLevel(call.level) /\ ExamplesOnlyRecord(call.id)
           /\ LookupFoundNothing) =>
            /\ call.level = DetailSummary
                  => (ret.err = NoError /\ ret.doc.Summary = <<>>)
            /\ call.level \in {DetailSchema, DetailFull}
                  => (ErrorsIs(ret.err, ErrNoTool) /\ ~ErrorsIs(ret.err, ErrNotFound)))

\* The only record is one without summary, notes and refs, holding three
\* examples, and DescribeTool at schema fails with NoTool, the index having
\* failed and the resolver having returned no tool.
C37_Witness ==
    /\ IsDescribe /\ call.level = DetailSchema
    /\ DOMAIN docs = {call.id}
    /\ ExamplesOnlyRecord(call.id) /\ StoredCount(call.id) = 3
    /\ call.asked.index # <<>> /\ call.asked.resolver # <<>>
    /\ LookupFoundNothing
    /\ ErrorsIs(ret.err, ErrNoTool)

----------------------------------------------------------------------------
(* Properties of the index lookup, checked under SpecSchema *)

\* s.index.GetTool was called by the last call and returned an error.
IndexFailed == call.asked.index # <<>> /\ call.asked.index[1].err # <<>>

\* C38: an error of the index is never returned to the caller.  DescribeTool
\* and ListExamples go on as if the index had no tool: the resolver is called
\* exactly when one is configured and decides the lookup; without a resolver
\* the call ends with NotFound when there is no record, with NoTool at schema
\* and full when there is one, and succeeds otherwise.
C38_IndexErrorNotPropagated ==
    ((IsDescribe \/ IsList) /\ IndexFailed) =>
        /\ ret.err \notin IndexErrs
        /\ call.asked.resolver # <<>> <=> toolResolver
        /\ ~toolResolver =>
              IF ~HasRecord(call.id) THEN ErrorsIs(ret.err, ErrNotFound)
              ELSE IF IsDescribe /\ call.level \in {DetailSchema, DetailFull}
              THEN ErrorsIs(ret.err, ErrNoTool)
              ELSE ret.err = NoError
        /\ (toolResolver /\ call.asked.resolver[1].err # <<>> /\ ret.err # NoError)
              => ret.err = call.asked.resolver[1].err
        /\ (toolResolver /\ call.asked.resolver[1].err = <<>>
                /\ call.asked.resolver[1].tool # <<>>)
              => /\ ret.err = NoError
                 /\ (IsDescribe /\ call.level # DetailSummary)
                       => ret.doc.Tool = call.asked.resolver[1].tool

\* No resolver, a record, and an index that cannot be reached: DescribeTool
\* at full fails with NoTool.
C38_Witness ==
    /\ IsDescribe /\ call.level = DetailFull
    /\ ~toolResolver /\ HasRecord(call.id)
    /\ IndexFailed /\ call.asked.index[1].err # IndexErr
    /\ ErrorsIs(ret.err, ErrNoTool)

\* The goroutine has left the read section of a DescribeTool or ListExamples.
PastReadSection(t) ==
    threads[t].op \in Reads /\ threads[t].pc \in {"index", "resolver", "done"}
        /\ ~ErrorsIs(threads[t].out.err, ErrInvalidDetail)

\* What a read returned is made of what it copied in its read section.
ReflectsSnapshot(th) ==
    /\ ErrorsIs(th.out.err, ErrNotFound) => ~th.snap.hasDoc
    /\ ErrorsIs(th.out.err, ErrNoTool) => th.snap.hasDoc
    /\ th.out.err = NoError =>
          IF th.op = "DescribeTool"
          THEN /\ th.out.doc.Notes = th.snap.notes
               /\ th.out.doc.Examples = th.snap.examples
               /\ th.out.doc.ExternalRefs = th.snap.externalRefs
               /\ th.snap.summary # <<>> => th.out.doc.Summary = th.snap.summary
          ELSE th.out.examples = th.snap.examples

\* C39: the record is copied before the lookup and not read again.  From the
\* read section on, what a read holds is the record (or its absence) as some
\* registration logged by then left it, it stays the same while
\* registrations commit during the index or resolver call, and the result is
\* made of it.
C39_SnapshotNotRefreshed ==
    /\ [](\A t \in Threads :
            PastReadSection(t) =>
                /\ \E k \in 0..Len(log) :
                      Observes(threads[t].snap, LogDocs(k), threads[t].op)
                /\ threads[t].pc = "done" => ReflectsSnapshot(threads[t]))
    /\ [][\A t \in Threads :
             (threads[t].pc \in {"index", "resolver"}
                 /\ threads'[t].pc \in {"index", "resolver", "done"})
                => threads'[t].snap = threads[t].snap]_vars

\* DescribeTool returns NotFound although the record exists: a registration
\* took the lock, wrote and returned while the reader was inside the lookup.
C39_Witness ==
    /\ threads["r1"].pc = "done"
    /\ ErrorsIs(threads["r1"].out.err, ErrNotFound)
    /\ Len(log) = 1
    /\ threads["w1"].pc = "idle" /\ threads["w2"].pc = "idle"
    /\ TextId \in DOMAIN docs
    /\ docs = LastLogged

====
